---------------------------- MODULE Spec2Model ----------------------------
(***************************************************************************)
(* Model of the TIti chat server: the escape-aware codec (protocol/        *)
(* parser.c, protocol/builder.c), the credential store (storage/           *)
(* user_store.c), the connection registry (core/connection_manager.c), the *)
(* session manager (core/session_manager.c), the router (core/             *)
(* message_router.c), the command handler (protocol/command_dandler.c) and *)
(* the event loop with its client handler (network/event_loop.c,           *)
(* network/client_handler.c).                                              *)
(*                                                                         *)
(* C strings are TLA+ strings; a character is a string of length one.      *)
(* The message-id counter of parse_message is only logged by the server    *)
(* and is not part of a Message here.                                      *)
(***************************************************************************)
EXTENDS Integers, Sequences, FiniteSets, TLC

VARIABLES
    clients,          \* connection_manager.c clients_head: the list, head first
    clients_count,    \* connection_manager.c clients_count
    next_client_id,   \* connection_manager.c next_client_id
    users,            \* user_store.c user_list_head: the list, head first
    user_id_counter,  \* user_store.c user_id_counter
    client_fds,       \* event_loop.c client_fds[MAX_CLIENTS]
    client_count,     \* event_loop.c client_count
    handled,          \* the read the client handler has just processed
    writes,           \* the send()/write() calls made while processing it
    api_op,           \* the registry/session operation a direct caller just made
    server_running,   \* tcp_server.c server_running
    loop_pc,          \* where event_loop_run stands: "select", "accept", "stopped"
    codec_in,         \* the value a caller hands to the codec
    codec_out,        \* what the codec returned for it
    codec_op,         \* the codec call just made
    app_state,        \* client.c AppClient.state
    app_running,      \* client.c AppClient.running
    app_sockfd,       \* client.c AppClient.sockfd: -1, or the connection it names
    app_username,     \* client.c AppClient.username
    app_pc,           \* where the client's foreground thread stands
    app_ret,          \* the client call that returned last, and its value
    recv_pc,          \* the reader thread: "none", "loop" or "exited"
    link,             \* the client's connection: "none", "up" or "lost"
    to_server,        \* frames sent by the client and not yet read by the server
    to_client         \* frames written by the server and not yet read by the client

vars == <<clients, clients_count, next_client_id, users, user_id_counter,
          client_fds, client_count, handled, writes, api_op,
          server_running, loop_pc, codec_in, codec_out, codec_op,
          app_state, app_running, app_sockfd, app_username, app_pc, app_ret,
          recv_pc, link, to_server, to_client>>

\* the variables of the codec calls, those of the server and those of the
\* client program
codec_vars == <<codec_in, codec_out, codec_op>>
server_vars == <<clients, clients_count, next_client_id, users,
                 user_id_counter, client_fds, client_count, handled, writes,
                 api_op, server_running, loop_pc>>
app_vars == <<app_state, app_running, app_sockfd, app_username, app_pc,
              app_ret, recv_pc, link, to_server, to_client>>

-----------------------------------------------------------------------------
(* Bounds of the model *)

\* event_loop.c sizes its table with MAX_CLIENTS (100); the model scales it down
MAX_CLIENTS == 3

\* accepted connections are capped so that next_client_id stays bounded
MaxClientId == 4

\* the longest string handed to escape_field by the direct codec calls
MaxFieldLen == 4

\* the longest content of a Message handed to serialize_message by them
MaxContentLen == 2

\* the most fields of a line handed to validate_message
MaxFields == 7

\* the longest of the short records handed to validate_message
MaxShortLen == 6

\* the most users added to the default ones by the direct store calls
MaxNewUsers == 4

\* the most frames waiting in one direction of the client's connection
MaxInFlight == 2

-----------------------------------------------------------------------------
(* Program constants *)

FIELD_DELIMITER == "|"
ESCAPE_CHAR == "\\"
DELIMITER_ESCAPE == "|"
NEWLINE_ESCAPE == "n"
NEWLINE == "\n"
FIELD_COUNT == 5

MSG_TYPE_LOGIN == "LOGIN"
MSG_TYPE_LOGOUT == "LOGOUT"
MSG_TYPE_MSG == "MSG"
MSG_TYPE_BROADCAST == "BROADCAST"
MSG_TYPE_GROUP == "GROUP"
MSG_TYPE_HISTORY == "HISTORY"
MSG_TYPE_STATUS == "STATUS"
MSG_TYPE_ERROR == "ERROR"
MSG_TYPE_OK == "OK"

RECEIVER_BROADCAST == "*"
RECEIVER_GROUP_PREFIX == "group:"

MAX_USERNAME_LEN == 32
MAX_PASSWORD_LEN == 32
MAX_CONTENT_LEN == 256
MSG_TYPE_SIZE == 16
TIMESTAMP_SIZE == 32
MAX_RAW_LEN == 1024
MIN_RAW_LEN == 5
RESPONSE_CONTENT_SIZE == 256
RESPONSE_MSG_SIZE == 512

RESPONSE_SUCCESS == 0
ERROR_AUTH_FAILED == 1001
ERROR_USER_NOT_FOUND == 1002
ERROR_USER_OFFLINE == 1003
ERROR_GROUP_FULL == 1004
ERROR_SERVER_ERROR == 5000

CLIENT_STATUS_CONNECTED == "Connected"
CLIENT_STATUS_AUTHENTICATED == "Authenticated"

\* the listening socket; accept() hands out the lowest free descriptor above it
SERVER_FD == 3

\* a NULL pointer to a Message, Client or User
NULL == <<>>

-----------------------------------------------------------------------------
(* C string helpers *)

At(s, i) == SubSeq(s, i, i)

\* strncmp(s, prefix, strlen(prefix)) == 0
HasPrefix(s, prefix) ==
    Len(s) >= Len(prefix) /\ SubSeq(s, 1, Len(prefix)) = prefix

\* safe_strcpy(dest, src, dest_size): at most dest_size - 1 characters are kept
safe_strcpy(src, dest_size) ==
    IF Len(src) >= dest_size THEN SubSeq(src, 1, dest_size - 1) ELSE src

\* snprintf into a buffer of the given size
snprintf(size, s) ==
    IF Len(s) >= size THEN SubSeq(s, 1, size - 1) ELSE s

-----------------------------------------------------------------------------
(* Codec: protocol/parser.c *)

\* an escape_field that leaves the escape character as it is
RECURSIVE escape_from_keeps_backslash(_, _)
escape_from_keeps_backslash(field, i) ==
    IF i > Len(field) THEN ""
    ELSE LET c == At(field, i)
             e == IF c = FIELD_DELIMITER THEN ESCAPE_CHAR \o DELIMITER_ESCAPE
                  ELSE IF c = NEWLINE THEN ESCAPE_CHAR \o NEWLINE_ESCAPE
                  ELSE c
         IN e \o escape_from_keeps_backslash(field, i + 1)

escape_field_keeps_backslash(field) == escape_from_keeps_backslash(field, 1)

RECURSIVE escape_from(_, _)
escape_from(field, i) ==
    IF i > Len(field) THEN ""
    ELSE LET c == At(field, i)
             e == IF c = FIELD_DELIMITER THEN ESCAPE_CHAR \o DELIMITER_ESCAPE
                  ELSE IF c = ESCAPE_CHAR THEN ESCAPE_CHAR \o ESCAPE_CHAR
                  ELSE IF c = NEWLINE THEN ESCAPE_CHAR \o NEWLINE_ESCAPE
                  ELSE c
         IN e \o escape_from(field, i + 1)

escape_field(field) == escape_from(field, 1)

\* an unescape_field that copies the field
unescape_field_copies(field) == field

RECURSIVE unescape_from(_, _)
unescape_from(field, i) ==
    IF i > Len(field) THEN ""
    ELSE IF At(field, i) = ESCAPE_CHAR /\ i + 1 <= Len(field)
         THEN LET n == At(field, i + 1)
              IN IF n = DELIMITER_ESCAPE
                 THEN FIELD_DELIMITER \o unescape_from(field, i + 2)
                 ELSE IF n = ESCAPE_CHAR
                 THEN ESCAPE_CHAR \o unescape_from(field, i + 2)
                 ELSE IF n = NEWLINE_ESCAPE
                 THEN NEWLINE \o unescape_from(field, i + 2)
                 ELSE At(field, i) \o unescape_from(field, i + 1)
         ELSE At(field, i) \o unescape_from(field, i + 1)

unescape_field(field) == unescape_from(field, 1)

\* the number of consecutive ESCAPE_CHAR ending at index k (scanning backwards)
RECURSIVE backslashes_before(_, _)
backslashes_before(s, k) ==
    IF k >= 1 /\ At(s, k) = ESCAPE_CHAR
    THEN 1 + backslashes_before(s, k - 1)
    ELSE 0

\* the field delimiter at index i is not escaped
is_separator(s, i) ==
    At(s, i) = FIELD_DELIMITER /\ backslashes_before(s, i - 1) % 2 = 0

\* the indices of the unescaped delimiters of s, in increasing order
RECURSIVE separators_from(_, _)
separators_from(s, i) ==
    IF i > Len(s) THEN <<>>
    ELSE IF is_separator(s, i) THEN <<i>> \o separators_from(s, i + 1)
    ELSE separators_from(s, i + 1)

\* a validate_message that wants exactly FIELD_COUNT - 1 separators
validate_message_exactly_four(raw_msg) ==
    LET len == Len(raw_msg)
        delimiter_count == Len(separators_from(raw_msg, 1))
    IN IF len < MIN_RAW_LEN THEN FALSE
       ELSE IF len > MAX_RAW_LEN THEN FALSE
       ELSE IF delimiter_count # FIELD_COUNT - 1 THEN FALSE
       ELSE IF At(raw_msg, len) = ESCAPE_CHAR
               /\ backslashes_before(raw_msg, len) % 2 = 1 THEN FALSE
       ELSE TRUE

\* a validate_message that does not count the separators
validate_message_any_count(raw_msg) ==
    LET len == Len(raw_msg)
    IN IF len < MIN_RAW_LEN THEN FALSE
       ELSE IF len > MAX_RAW_LEN THEN FALSE
       ELSE IF At(raw_msg, len) = ESCAPE_CHAR
               /\ backslashes_before(raw_msg, len) % 2 = 1 THEN FALSE
       ELSE TRUE

validate_message(raw_msg) ==
    LET len == Len(raw_msg)
        delimiter_count == Len(separators_from(raw_msg, 1))
    IN IF len < MIN_RAW_LEN THEN FALSE
       ELSE IF len > MAX_RAW_LEN THEN FALSE
       ELSE IF delimiter_count < FIELD_COUNT - 1 THEN FALSE
       ELSE IF At(raw_msg, len) = ESCAPE_CHAR
               /\ backslashes_before(raw_msg, len) % 2 = 1 THEN FALSE
       ELSE TRUE

\* isalnum() in the C locale
Alnum ==
    {"a", "b", "c", "d", "e", "f", "g", "h", "i", "j", "k", "l", "m",
     "n", "o", "p", "q", "r", "s", "t", "u", "v", "w", "x", "y", "z",
     "A", "B", "C", "D", "E", "F", "G", "H", "I", "J", "K", "L", "M",
     "N", "O", "P", "Q", "R", "S", "T", "U", "V", "W", "X", "Y", "Z",
     "0", "1", "2", "3", "4", "5", "6", "7", "8", "9"}

is_valid_username(username) ==
    LET len == Len(username)
    IN IF len < 1 \/ len > MAX_USERNAME_LEN - 1 THEN FALSE
       ELSE \A i \in 1..len :
               At(username, i) \in Alnum \/ At(username, i) = "_"

is_valid_msg_type(type) ==
    type \in {MSG_TYPE_LOGIN, MSG_TYPE_LOGOUT, MSG_TYPE_MSG, MSG_TYPE_BROADCAST,
              MSG_TYPE_GROUP, MSG_TYPE_HISTORY, MSG_TYPE_STATUS, MSG_TYPE_ERROR,
              MSG_TYPE_OK}

\* the wall clock read by get_current_timestamp, formatted "%Y-%m-%d %H:%M:%S"
get_current_timestamp == "2024-01-15 10:30:00"

\* parse_message: NULL, or the Message with its five fields
parse_message(raw_msg) ==
    IF Len(raw_msg) = 0 THEN NULL
    ELSE IF ~validate_message(raw_msg) THEN NULL
    ELSE
      LET len == Len(raw_msg)
          msg_copy == IF At(raw_msg, len) = NEWLINE
                      THEN SubSeq(raw_msg, 1, len - 1) ELSE raw_msg
          seps == separators_from(msg_copy, 1)
      IN IF Len(seps) < FIELD_COUNT - 1 THEN NULL
         ELSE
           LET f0 == SubSeq(msg_copy, 1, seps[1] - 1)
               f1 == SubSeq(msg_copy, seps[1] + 1, seps[2] - 1)
               f2 == SubSeq(msg_copy, seps[2] + 1, seps[3] - 1)
               f3 == SubSeq(msg_copy, seps[3] + 1, seps[4] - 1)
               f4 == SubSeq(msg_copy, seps[4] + 1, Len(msg_copy))
               type == safe_strcpy(unescape_field(f0), MSG_TYPE_SIZE)
               timestamp == safe_strcpy(unescape_field(f3), TIMESTAMP_SIZE)
           IN IF Len(type) = 0 THEN NULL
              ELSE IF ~is_valid_msg_type(type) THEN NULL
              ELSE [type |-> type,
                    sender |-> safe_strcpy(unescape_field(f1), MAX_USERNAME_LEN),
                    receiver |-> safe_strcpy(unescape_field(f2), MAX_USERNAME_LEN),
                    timestamp |-> IF Len(timestamp) = 0
                                  THEN get_current_timestamp ELSE timestamp,
                    content |-> safe_strcpy(unescape_field(f4), MAX_CONTENT_LEN)]

\* serialize_message returns NULL for a Message whose type is empty
serialize_is_null(msg) == Len(msg.type) = 0

\* a serializer that forgets to escape the content
serialize_message_raw_content(msg) ==
    escape_field(msg.type) \o "|" \o escape_field(msg.sender) \o "|"
    \o escape_field(msg.receiver) \o "|" \o escape_field(msg.timestamp)
    \o "|" \o msg.content \o "\n"

serialize_message(msg) ==
    escape_field(msg.type) \o "|" \o escape_field(msg.sender) \o "|"
    \o escape_field(msg.receiver) \o "|" \o escape_field(msg.timestamp)
    \o "|" \o escape_field(msg.content) \o "\n"

is_login_msg(msg) == msg.type = MSG_TYPE_LOGIN
is_logout_msg(msg) == msg.type = MSG_TYPE_LOGOUT
is_private_msg(msg) ==
    /\ msg.type = MSG_TYPE_MSG
    /\ msg.receiver # RECEIVER_BROADCAST
    /\ ~HasPrefix(msg.receiver, RECEIVER_GROUP_PREFIX)
is_broadcast_msg(msg) == msg.type = MSG_TYPE_BROADCAST
is_group_msg(msg) == msg.type = MSG_TYPE_GROUP
is_history_request(msg) == msg.type = MSG_TYPE_HISTORY
is_status_request(msg) == msg.type = MSG_TYPE_STATUS

-----------------------------------------------------------------------------
(* Builder: protocol/builder.c *)

\* every caller passes MSG_TYPE_OK or MSG_TYPE_ERROR as type
build_response_msg(code, type, message) ==
    LET content == snprintf(RESPONSE_CONTENT_SIZE,
                            ToString(code) \o "|" \o message)
    IN snprintf(RESPONSE_MSG_SIZE,
                type \o "|server|client|" \o get_current_timestamp
                \o "|" \o content \o "\n")

build_success_msg(message) ==
    build_response_msg(RESPONSE_SUCCESS, MSG_TYPE_OK, message)

build_error_msg(error_code, message) ==
    build_response_msg(error_code, MSG_TYPE_ERROR, message)

-----------------------------------------------------------------------------
(* Credential store: storage/user_store.c *)

create_user(username, password, id) ==
    [username |-> safe_strcpy(username, MAX_USERNAME_LEN),
     password |-> safe_strcpy(password, MAX_PASSWORD_LEN),
     user_id |-> id,
     is_active |-> 1]

\* the index of the first User named username in the list us, 0 for NULL
RECURSIVE user_index_from(_, _, _)
user_index_from(us, username, i) ==
    IF i > Len(us) THEN 0
    ELSE IF us[i].username = username THEN i
    ELSE user_index_from(us, username, i + 1)

user_store_find_by_username(us, username) ==
    LET i == user_index_from(us, username, 1)
    IN IF i = 0 THEN NULL ELSE us[i]

\* user_store_add on the store [list, counter]: the new store and the return value
user_store_add(store, username, password) ==
    IF user_store_find_by_username(store.list, username) # NULL
    THEN [list |-> store.list, counter |-> store.counter, ret |-> 0]
    ELSE [list |-> <<create_user(username, password, store.counter)>> \o store.list,
          counter |-> store.counter + 1,
          ret |-> 1]

user_store_authenticate(us, username, password) ==
    LET user == user_store_find_by_username(us, username)
    IN IF user = NULL THEN 0
       ELSE IF user.is_active = 0 THEN 0
       ELSE IF user.password = password THEN 1
       ELSE 0

RECURSIVE user_store_count(_)
user_store_count(us) ==
    IF us = <<>> THEN 0 ELSE 1 + user_store_count(Tail(us))

FIRST_USER_ID == 1000

\* the store after storage_init, which calls user_store_init_defaults
user_store_init_defaults ==
    LET s0 == [list |-> <<>>, counter |-> FIRST_USER_ID]
        s1 == user_store_add(s0, "admin", "admin123")
        s2 == user_store_add(s1, "alice", "alice123")
        s3 == user_store_add(s2, "bob", "bob123")
    IN user_store_add(s3, "charlie", "charlie123")

-----------------------------------------------------------------------------
(* Connection registry: core/connection_manager.c                          *)
(* A Client is [sockfd, client_id, user_id, username, status]; the remote  *)
(* address and the two instants are not read by any decision and are left  *)
(* out.  Every operator takes the list cl and returns what the function    *)
(* returns or leaves behind.                                               *)

\* the index in cl of the first Client satisfying the test, 0 for NULL
RECURSIVE fd_index_from(_, _, _)
fd_index_from(cl, fd, i) ==
    IF i > Len(cl) THEN 0
    ELSE IF cl[i].sockfd = fd THEN i
    ELSE fd_index_from(cl, fd, i + 1)

connection_manager_find_by_fd(cl, fd) ==
    LET i == fd_index_from(cl, fd, 1)
    IN IF i = 0 THEN NULL ELSE cl[i]

RECURSIVE username_index_from(_, _, _)
username_index_from(cl, username, i) ==
    IF i > Len(cl) THEN 0
    ELSE IF cl[i].username = username THEN i
    ELSE username_index_from(cl, username, i + 1)

connection_manager_find_by_username(cl, username) ==
    LET i == username_index_from(cl, username, 1)
    IN IF i = 0 THEN NULL ELSE cl[i]

new_client(sockfd, id) ==
    [sockfd |-> sockfd,
     client_id |-> id,
     user_id |-> -1,
     username |-> "",
     status |-> CLIENT_STATUS_CONNECTED]

\* an add that does not look for the descriptor first
connection_manager_add_from_fd_unchecked(reg, sockfd) ==
    [list |-> <<new_client(sockfd, reg.next_id)>> \o reg.list,
     count |-> reg.count + 1,
     next_id |-> reg.next_id + 1]

\* connection_manager_add_from_fd on the registry [list, count, next_id]
connection_manager_add_from_fd(reg, sockfd) ==
    IF connection_manager_find_by_fd(reg.list, sockfd) # NULL THEN reg
    ELSE [list |-> <<new_client(sockfd, reg.next_id)>> \o reg.list,
          count |-> reg.count + 1,
          next_id |-> reg.next_id + 1]

\* a remove that unlinks the head of the list whatever descriptor is asked
connection_manager_remove_head(reg, fd) ==
    IF reg.list = <<>> THEN reg
    ELSE [list |-> Tail(reg.list),
          count |-> reg.count - 1,
          next_id |-> reg.next_id]

\* a remove that leaves the entry in the list
connection_manager_remove_keeps_entry(reg, fd) == reg

\* connection_manager_remove on the registry [list, count, next_id]
connection_manager_remove(reg, fd) ==
    LET i == fd_index_from(reg.list, fd, 1)
    IN IF i = 0 THEN reg
       ELSE [list |-> SubSeq(reg.list, 1, i - 1)
                      \o SubSeq(reg.list, i + 1, Len(reg.list)),
             count |-> reg.count - 1,
             next_id |-> reg.next_id]

\* a set_auth that binds the username and forgets the user id
connection_manager_set_auth_no_user_id(cl, fd, user_id, username) ==
    LET i == fd_index_from(cl, fd, 1)
    IN IF i = 0 THEN cl
       ELSE [cl EXCEPT ![i].username = safe_strcpy(username, MAX_USERNAME_LEN),
                       ![i].status = CLIENT_STATUS_AUTHENTICATED]

\* connection_manager_set_auth: the list afterwards (unchanged when fd is absent)
connection_manager_set_auth(cl, fd, user_id, username) ==
    LET i == fd_index_from(cl, fd, 1)
    IN IF i = 0 THEN cl
       ELSE [cl EXCEPT ![i].user_id = user_id,
                       ![i].username = safe_strcpy(username, MAX_USERNAME_LEN),
                       ![i].status = CLIENT_STATUS_AUTHENTICATED]

connection_manager_set_status(cl, fd, status) ==
    LET i == fd_index_from(cl, fd, 1)
    IN IF i = 0 THEN cl ELSE [cl EXCEPT ![i].status = status]

\* connection_manager_get_all: the array of clients, in list order
connection_manager_get_all(cl, count) ==
    IF count = 0 THEN <<>>
    ELSE SubSeq(cl, 1, IF Len(cl) < count THEN Len(cl) ELSE count)

-----------------------------------------------------------------------------
(* Session manager: core/session_manager.c *)

\* an authenticate that binds the named user without verifying the credential
session_manager_authenticate_unverified(cl, us, fd, username, password) ==
    LET client == connection_manager_find_by_fd(cl, fd)
    IN IF client = NULL THEN [ret |-> 0, cl |-> cl]
       ELSE IF client.status = CLIENT_STATUS_AUTHENTICATED
       THEN [ret |-> 1, cl |-> cl]
       ELSE LET user == user_store_find_by_username(us, username)
            IN IF user = NULL THEN [ret |-> 0, cl |-> cl]
               ELSE [ret |-> 1,
                     cl |-> connection_manager_set_auth(cl, fd, user.user_id,
                                                        username)]

\* an authenticate without the early return for an Authenticated client
session_manager_authenticate_rechecks(cl, us, fd, username, password) ==
    LET client == connection_manager_find_by_fd(cl, fd)
    IN IF client = NULL THEN [ret |-> 0, cl |-> cl]
       ELSE IF user_store_authenticate(us, username, password) = 0
       THEN [ret |-> 0, cl |-> cl]
       ELSE LET user == user_store_find_by_username(us, username)
            IN IF user = NULL THEN [ret |-> 0, cl |-> cl]
               ELSE [ret |-> 1,
                     cl |-> connection_manager_set_auth(cl, fd, user.user_id,
                                                        username)]

\* session_manager_authenticate: [ret, cl] with the list afterwards
session_manager_authenticate(cl, us, fd, username, password) ==
    LET client == connection_manager_find_by_fd(cl, fd)
    IN IF client = NULL THEN [ret |-> 0, cl |-> cl]
       ELSE IF client.status = CLIENT_STATUS_AUTHENTICATED
       THEN [ret |-> 1, cl |-> cl]
       ELSE IF user_store_authenticate(us, username, password) = 0
       THEN [ret |-> 0, cl |-> cl]
       ELSE LET user == user_store_find_by_username(us, username)
            IN IF user = NULL THEN [ret |-> 0, cl |-> cl]
               ELSE [ret |-> 1,
                     cl |-> connection_manager_set_auth(cl, fd, user.user_id,
                                                        username)]

\* a logout that clears the username and leaves the user id bound
session_manager_logout_keeps_user_id(cl, fd) ==
    LET i == fd_index_from(cl, fd, 1)
    IN IF i = 0 THEN cl
       ELSE IF cl[i].status # CLIENT_STATUS_AUTHENTICATED THEN cl
       ELSE [cl EXCEPT ![i].username = "",
                       ![i].status = CLIENT_STATUS_CONNECTED]

\* a logout that resets the status and leaves the identity bound
session_manager_logout_keeps_identity(cl, fd) ==
    LET i == fd_index_from(cl, fd, 1)
    IN IF i = 0 THEN cl
       ELSE IF cl[i].status # CLIENT_STATUS_AUTHENTICATED THEN cl
       ELSE [cl EXCEPT ![i].status = CLIENT_STATUS_CONNECTED]

\* session_manager_logout: the list afterwards
session_manager_logout(cl, fd) ==
    LET i == fd_index_from(cl, fd, 1)
    IN IF i = 0 THEN cl
       ELSE IF cl[i].status # CLIENT_STATUS_AUTHENTICATED THEN cl
       ELSE [cl EXCEPT ![i].user_id = -1,
                       ![i].username = "",
                       ![i].status = CLIENT_STATUS_CONNECTED]

session_manager_is_authenticated(cl, fd) ==
    LET client == connection_manager_find_by_fd(cl, fd)
    IN IF client = NULL THEN FALSE
       ELSE client.status = CLIENT_STATUS_AUTHENTICATED

session_manager_get_user_id(cl, fd) ==
    LET client == connection_manager_find_by_fd(cl, fd)
    IN IF client = NULL THEN -1
       ELSE IF client.status # CLIENT_STATUS_AUTHENTICATED THEN -1
       ELSE client.user_id

\* session_manager_get_username: NULL, or the bound username
session_manager_get_username(cl, fd) ==
    LET client == connection_manager_find_by_fd(cl, fd)
    IN IF client = NULL THEN NULL
       ELSE IF client.status # CLIENT_STATUS_AUTHENTICATED THEN NULL
       ELSE <<client.username>>

session_manager_is_user_online(cl, username) ==
    LET client == connection_manager_find_by_username(cl, username)
    IN client # NULL /\ client.status = CLIENT_STATUS_AUTHENTICATED

\* session_manager_get_online_users: the number of names it returns
RECURSIVE online_count_from(_, _)
online_count_from(all, i) ==
    IF i > Len(all) THEN 0
    ELSE (IF all[i].status = CLIENT_STATUS_AUTHENTICATED THEN 1 ELSE 0)
         + online_count_from(all, i + 1)

session_manager_get_online_users(cl, count) ==
    online_count_from(connection_manager_get_all(cl, count), 1)

-----------------------------------------------------------------------------
(* Socket writes.  A send() or write() on descriptor fd either transfers   *)
(* the whole frame or fails; bad is the set of descriptors on which it     *)
(* fails while the current read is processed (a short send counts as a     *)
(* failure, as in message_router.c).                                       *)

send_to_socket(sockfd, message, bad) ==
    [fd |-> sockfd, data |-> message, ok |-> sockfd \notin bad]

\* the return value of send_to_socket for a recorded write
send_result(w) == IF w.ok THEN 0 ELSE -1

-----------------------------------------------------------------------------
(* Router: core/message_router.c.  Each operator returns [ret, w]: the     *)
(* return value and the sequence of writes made.                           *)

\* a private route that looks the receiver up without the online check
route_private_message_no_online_check(cl, msg, bad) ==
    IF ~is_private_msg(msg) THEN [ret |-> -1, w |-> <<>>]
    ELSE LET receiver == connection_manager_find_by_username(cl, msg.receiver)
         IN IF receiver = NULL THEN [ret |-> ERROR_USER_NOT_FOUND, w |-> <<>>]
            ELSE IF serialize_is_null(msg) THEN [ret |-> -1, w |-> <<>>]
            ELSE LET sent == send_to_socket(receiver.sockfd,
                                            serialize_message(msg), bad)
                 IN [ret |-> send_result(sent), w |-> <<sent>>]

route_private_message(cl, msg, bad) ==
    IF ~is_private_msg(msg) THEN [ret |-> -1, w |-> <<>>]
    ELSE IF ~session_manager_is_user_online(cl, msg.receiver)
    THEN [ret |-> ERROR_USER_OFFLINE, w |-> <<>>]
    ELSE LET receiver == connection_manager_find_by_username(cl, msg.receiver)
         IN IF receiver = NULL THEN [ret |-> ERROR_USER_NOT_FOUND, w |-> <<>>]
            ELSE IF serialize_is_null(msg) THEN [ret |-> -1, w |-> <<>>]
            ELSE LET sent == send_to_socket(receiver.sockfd,
                                            serialize_message(msg), bad)
                 IN [ret |-> send_result(sent), w |-> <<sent>>]

\* a broadcast loop that does not skip the sender's own entries
RECURSIVE broadcast_loop_to_all(_, _, _, _, _)
broadcast_loop_to_all(all, i, msg, serialized_msg, bad) ==
    IF i > Len(all) THEN <<>>
    ELSE IF all[i].status # CLIENT_STATUS_AUTHENTICATED
    THEN broadcast_loop_to_all(all, i + 1, msg, serialized_msg, bad)
    ELSE <<send_to_socket(all[i].sockfd, serialized_msg, bad)>>
         \o broadcast_loop_to_all(all, i + 1, msg, serialized_msg, bad)

\* the writes of the broadcast loop over clients[i..], in array order
RECURSIVE broadcast_loop(_, _, _, _, _)
broadcast_loop(all, i, msg, serialized_msg, bad) ==
    IF i > Len(all) THEN <<>>
    ELSE IF all[i].status # CLIENT_STATUS_AUTHENTICATED
    THEN broadcast_loop(all, i + 1, msg, serialized_msg, bad)
    ELSE IF all[i].username = msg.sender
    THEN broadcast_loop(all, i + 1, msg, serialized_msg, bad)
    ELSE <<send_to_socket(all[i].sockfd, serialized_msg, bad)>>
         \o broadcast_loop(all, i + 1, msg, serialized_msg, bad)

RECURSIVE success_count(_)
success_count(w) ==
    IF w = <<>> THEN 0
    ELSE (IF Head(w).ok THEN 1 ELSE 0) + success_count(Tail(w))

\* a broadcast route that reports success whatever the writes returned
route_broadcast_message_always_ok(cl, count, msg, bad) ==
    IF ~is_broadcast_msg(msg) THEN [ret |-> -1, w |-> <<>>]
    ELSE LET all == connection_manager_get_all(cl, count)
         IN IF all = <<>> THEN [ret |-> -1, w |-> <<>>]
            ELSE IF serialize_is_null(msg) THEN [ret |-> -1, w |-> <<>>]
            ELSE [ret |-> 0,
                  w |-> broadcast_loop(all, 1, msg, serialize_message(msg), bad)]

route_broadcast_message(cl, count, msg, bad) ==
    IF ~is_broadcast_msg(msg) THEN [ret |-> -1, w |-> <<>>]
    ELSE LET all == connection_manager_get_all(cl, count)
         IN IF all = <<>> THEN [ret |-> -1, w |-> <<>>]
            ELSE IF serialize_is_null(msg) THEN [ret |-> -1, w |-> <<>>]
            ELSE LET w == broadcast_loop(all, 1, msg, serialize_message(msg), bad)
                 IN [ret |-> IF success_count(w) > 0 THEN 0 ELSE -1, w |-> w]

route_group_message(msg) == [ret |-> -1, w |-> <<>>]

route_message(cl, count, msg, bad) ==
    IF is_private_msg(msg) THEN route_private_message(cl, msg, bad)
    ELSE IF is_broadcast_msg(msg) THEN route_broadcast_message(cl, count, msg, bad)
    ELSE IF is_group_msg(msg) THEN route_group_message(msg)
    ELSE IF is_login_msg(msg) \/ is_logout_msg(msg)
            \/ is_history_request(msg) \/ is_status_request(msg)
    THEN [ret |-> 0, w |-> <<>>]
    ELSE [ret |-> -1, w |-> <<>>]

-----------------------------------------------------------------------------
(* Command handler: protocol/command_dandler.c.  Each handler returns      *)
(* [cl, w]: the registry list afterwards and the writes made, in order.    *)

handle_login(cl, us, client_fd, msg, bad) ==
    LET username == msg.sender
        password == msg.content
    IN IF ~is_login_msg(msg) THEN [cl |-> cl, w |-> <<>>]
       ELSE IF Len(password) = 0
       THEN [cl |-> cl,
             w |-> <<send_to_socket(client_fd,
                       build_error_msg(ERROR_AUTH_FAILED,
                                       "Missing username or password"), bad)>>]
       ELSE LET auth == session_manager_authenticate(cl, us, client_fd,
                                                     username, password)
            IN IF auth.ret = 1
               THEN [cl |-> auth.cl,
                     w |-> <<send_to_socket(client_fd,
                               build_success_msg("Login successful"), bad)>>]
               ELSE [cl |-> auth.cl,
                     w |-> <<send_to_socket(client_fd,
                               build_error_msg(ERROR_AUTH_FAILED,
                                               "Invalid username or password"),
                               bad)>>]

handle_logout(cl, client_fd, msg, bad) ==
    IF ~is_logout_msg(msg) THEN [cl |-> cl, w |-> <<>>]
    ELSE [cl |-> session_manager_logout(cl, client_fd),
          w |-> <<send_to_socket(client_fd,
                                 build_success_msg("Logout successful"), bad)>>]

handle_send_message(cl, count, client_fd, msg, bad) ==
    IF ~is_private_msg(msg) THEN [cl |-> cl, w |-> <<>>]
    ELSE IF ~session_manager_is_authenticated(cl, client_fd)
    THEN [cl |-> cl,
          w |-> <<send_to_socket(client_fd,
                    build_error_msg(ERROR_AUTH_FAILED, "Please login first"),
                    bad)>>]
    ELSE LET sender == session_manager_get_username(cl, client_fd)
         IN IF sender = NULL THEN [cl |-> cl, w |-> <<>>]
            ELSE IF sender[1] # msg.sender
            THEN [cl |-> cl,
                  w |-> <<send_to_socket(client_fd,
                            build_error_msg(ERROR_AUTH_FAILED, "Sender mismatch"),
                            bad)>>]
            ELSE LET route == route_message(cl, count, msg, bad)
                 IN IF route.ret = 0
                    THEN [cl |-> cl,
                          w |-> route.w \o
                                <<send_to_socket(client_fd,
                                    build_success_msg("Message sent successfully"),
                                    bad)>>]
                    ELSE LET error_str ==
                                 IF route.ret = ERROR_USER_OFFLINE
                                 THEN "User is offline"
                                 ELSE IF route.ret = ERROR_USER_NOT_FOUND
                                 THEN "User not found"
                                 ELSE "Failed to send message"
                         IN [cl |-> cl,
                             w |-> route.w \o
                                   <<send_to_socket(client_fd,
                                       build_error_msg(route.ret, error_str),
                                       bad)>>]

handle_broadcast(cl, count, client_fd, msg, bad) ==
    IF ~is_broadcast_msg(msg) THEN [cl |-> cl, w |-> <<>>]
    ELSE IF ~session_manager_is_authenticated(cl, client_fd)
    THEN [cl |-> cl,
          w |-> <<send_to_socket(client_fd,
                    build_error_msg(ERROR_AUTH_FAILED, "Please login first"),
                    bad)>>]
    ELSE LET sender == session_manager_get_username(cl, client_fd)
         IN IF sender = NULL THEN [cl |-> cl, w |-> <<>>]
            ELSE IF sender[1] # msg.sender
            THEN [cl |-> cl,
                  w |-> <<send_to_socket(client_fd,
                            build_error_msg(ERROR_AUTH_FAILED, "Sender mismatch"),
                            bad)>>]
            ELSE LET route == route_message(cl, count, msg, bad)
                 IN IF route.ret = 0
                    THEN [cl |-> cl,
                          w |-> route.w \o
                                <<send_to_socket(client_fd,
                                    build_success_msg("Broadcast sent successfully"),
                                    bad)>>]
                    ELSE [cl |-> cl,
                          w |-> route.w \o
                                <<send_to_socket(client_fd,
                                    build_error_msg(ERROR_SERVER_ERROR,
                                                    "Failed to broadcast message"),
                                    bad)>>]

handle_history_request(cl, client_fd, msg, bad) ==
    IF ~is_history_request(msg) THEN [cl |-> cl, w |-> <<>>]
    ELSE IF ~session_manager_is_authenticated(cl, client_fd)
    THEN [cl |-> cl,
          w |-> <<send_to_socket(client_fd,
                    build_error_msg(ERROR_AUTH_FAILED, "Please login first"),
                    bad)>>]
    ELSE [cl |-> cl,
          w |-> <<send_to_socket(client_fd,
                    build_error_msg(ERROR_SERVER_ERROR,
                                    "History feature not implemented yet"),
                    bad)>>]

STATUS_INFO_SIZE == 512

handle_status_request(cl, count, us, client_fd, msg, bad) ==
    LET online_count == session_manager_get_online_users(cl, count)
        status_info ==
            snprintf(STATUS_INFO_SIZE,
                "Server Status:\n- Uptime: TODO\n- Connected clients: "
                \o ToString(count)
                \o "\n- Online users: " \o ToString(online_count)
                \o "\n- Total users: " \o ToString(user_store_count(us))
                \o "\n- Your status: "
                \o (IF session_manager_is_authenticated(cl, client_fd)
                    THEN "Online" ELSE "Offline"))
    IN IF ~is_status_request(msg) THEN [cl |-> cl, w |-> <<>>]
       ELSE [cl |-> cl,
             w |-> <<send_to_socket(client_fd, build_success_msg(status_info),
                                    bad)>>]

\* a group handler that rejects without telling the caller
handle_group_message_silent(cl, client_fd, msg, bad) ==
    IF ~is_group_msg(msg) THEN [cl |-> cl, w |-> <<>>]
    ELSE IF ~session_manager_is_authenticated(cl, client_fd)
    THEN [cl |-> cl,
          w |-> <<send_to_socket(client_fd,
                    build_error_msg(ERROR_AUTH_FAILED, "Please login first"),
                    bad)>>]
    ELSE [cl |-> cl, w |-> <<>>]

handle_group_message(cl, client_fd, msg, bad) ==
    IF ~is_group_msg(msg) THEN [cl |-> cl, w |-> <<>>]
    ELSE IF ~session_manager_is_authenticated(cl, client_fd)
    THEN [cl |-> cl,
          w |-> <<send_to_socket(client_fd,
                    build_error_msg(ERROR_AUTH_FAILED, "Please login first"),
                    bad)>>]
    ELSE [cl |-> cl,
          w |-> <<send_to_socket(client_fd,
                    build_error_msg(ERROR_SERVER_ERROR,
                                    "Group feature not implemented yet"),
                    bad)>>]

get_command_type(type_str) ==
    IF type_str = MSG_TYPE_LOGIN THEN "CMD_LOGIN"
    ELSE IF type_str = MSG_TYPE_LOGOUT THEN "CMD_LOGOUT"
    ELSE IF type_str = MSG_TYPE_MSG THEN "CMD_SEND_MSG"
    ELSE IF type_str = MSG_TYPE_BROADCAST THEN "CMD_BROADCAST"
    ELSE IF type_str = MSG_TYPE_GROUP THEN "CMD_JOIN_GROUP"
    ELSE IF type_str = MSG_TYPE_HISTORY THEN "CMD_GET_HISTORY"
    ELSE IF type_str = MSG_TYPE_STATUS THEN "CMD_GET_STATUS"
    ELSE "CMD_UNKNOWN"

handle_command(cl, count, us, client_fd, msg, bad) ==
    LET cmd_type == get_command_type(msg.type)
    IN IF cmd_type = "CMD_LOGIN" THEN handle_login(cl, us, client_fd, msg, bad)
       ELSE IF cmd_type = "CMD_LOGOUT" THEN handle_logout(cl, client_fd, msg, bad)
       ELSE IF cmd_type = "CMD_SEND_MSG"
       THEN handle_send_message(cl, count, client_fd, msg, bad)
       ELSE IF cmd_type = "CMD_BROADCAST"
       THEN handle_broadcast(cl, count, client_fd, msg, bad)
       ELSE IF cmd_type = "CMD_JOIN_GROUP"
       THEN handle_group_message(cl, client_fd, msg, bad)
       ELSE IF cmd_type = "CMD_GET_HISTORY"
       THEN handle_history_request(cl, client_fd, msg, bad)
       ELSE IF cmd_type = "CMD_GET_STATUS"
       THEN handle_status_request(cl, count, us, client_fd, msg, bad)
       ELSE IF msg.type = MSG_TYPE_ERROR \/ msg.type = MSG_TYPE_OK
       THEN [cl |-> cl, w |-> <<>>]
       ELSE [cl |-> cl,
             w |-> <<send_to_socket(client_fd,
                       build_error_msg(ERROR_SERVER_ERROR, "Unknown command type"),
                       bad)>>]

handle_raw_message(cl, count, us, client_fd, raw_message, bad) ==
    LET msg == parse_message(raw_message)
    IN IF msg = NULL
       THEN [cl |-> cl,
             w |-> <<send_to_socket(client_fd,
                       build_error_msg(ERROR_SERVER_ERROR,
                                       "Failed to parse message"), bad)>>]
       ELSE handle_command(cl, count, us, client_fd, msg, bad)

-----------------------------------------------------------------------------
(* Client handler and event loop: network/client_handler.c and             *)
(* network/event_loop.c.                                                   *)

\* client_handler_send: one write() of the data on the descriptor
client_handler_send(client_fd, data, bad) ==
    IF Len(data) = 0 THEN <<>> ELSE <<send_to_socket(client_fd, data, bad)>>

\* a client handler that drops what does not parse without a reply
client_handler_handle_drops_invalid(cl, count, us, client_fd, buffer, bad) ==
    IF parse_message(buffer) # NULL
    THEN handle_raw_message(cl, count, us, client_fd, buffer, bad)
    ELSE [cl |-> cl, w |-> <<>>]

\* client_handler_handle with read() returning the bytes of buffer
client_handler_handle(cl, count, us, client_fd, buffer, bad) ==
    IF parse_message(buffer) # NULL
    THEN handle_raw_message(cl, count, us, client_fd, buffer, bad)
    ELSE [cl |-> cl,
          w |-> client_handler_send(client_fd,
                    build_error_msg(ERROR_SERVER_ERROR, "Invalid message format"),
                    bad)]

\* the descriptors of the client sockets the event loop watches
OpenFds == {client_fds[i] : i \in 1..MAX_CLIENTS} \ {-1}

\* the first free slot of client_fds, 0 when there is none
RECURSIVE free_slot_from(_, _)
free_slot_from(fds, i) ==
    IF i > MAX_CLIENTS THEN 0
    ELSE IF fds[i] = -1 THEN i
    ELSE free_slot_from(fds, i + 1)

RECURSIVE slot_of_from(_, _, _)
slot_of_from(fds, fd, i) ==
    IF i > MAX_CLIENTS THEN 0
    ELSE IF fds[i] = fd THEN i
    ELSE slot_of_from(fds, fd, i + 1)

\* accept() hands out the lowest descriptor that is not open
RECURSIVE lowest_free_fd(_, _)
lowest_free_fd(open, fd) ==
    IF fd \notin open THEN fd ELSE lowest_free_fd(open, fd + 1)

accept_connection == lowest_free_fd(OpenFds, SERVER_FD + 1)

\* the registry as the record the connection manager operators work on
Registry == [list |-> clients, count |-> clients_count, next_id |-> next_client_id]

\* what the clients of the model send
Frames ==
    { "LOGIN|alice|server|t|alice123\n",
      "LOGIN|bob|server|t|bob123\n",
      "LOGIN|alice|server|t|bad\n",
      "LOGIN|alice|server|t|\n",
      "LOGIN|zzz|server|t|pw\n",
      "LOGOUT|alice|server|t|\n",
      "MSG|alice|bob|t|hi\n",
      "MSG|alice|bob||a\\|b\\nc\\\\nd\n",
      "MSG|alice|bob|t|one\nMSG|alice|bob|t|two\n",
      "MSG|bob|alice|t|hi\n",
      "MSG|alice|charlie|t|hi\n",
      "MSG|alice|zzz|t|hi\n",
      "MSG|alice|*|t|hi\n",
      "MSG|alice|group:g|t|hi\n",
      "BROADCAST|alice|*|t|all\n",
      "BROADCAST|bob|*|t|all\n",
      "GROUP|alice|group:g|t|hi\n",
      "GROUP|bob|group:g|t|hi\n",
      "HISTORY|alice|server|t|\n",
      "STATUS|alice|server|t|\n",
      "OK|server|client|t|0|x\n",
      "PING|alice|server|t|x\n",
      "hello\n" }

\* an add_client that does not compare client_count with MAX_CLIENTS
AcceptClient_without_limit ==
    /\ handled = NULL
    /\ \/ loop_pc = "select" /\ server_running
       \/ loop_pc = "accept"
    /\ loop_pc' = "select"
    /\ next_client_id <= MaxClientId
    /\ LET reg == connection_manager_add_from_fd(Registry, accept_connection)
           slot == free_slot_from(client_fds, 1)
       IN /\ clients' = reg.list
          /\ clients_count' = reg.count
          /\ next_client_id' = reg.next_id
          /\ IF slot = 0
             THEN UNCHANGED <<client_fds, client_count>>
             ELSE /\ client_fds' = [client_fds EXCEPT ![slot] = accept_connection]
                  /\ client_count' = client_count + 1
    /\ UNCHANGED <<users, user_id_counter, handled, writes, api_op,
                   server_running>>
    /\ UNCHANGED codec_vars
    /\ UNCHANGED app_vars

\* the server socket is readable: accept_connection and add_client
AcceptClient ==
    /\ handled = NULL
    /\ \/ loop_pc = "select" /\ server_running
       \/ loop_pc = "accept"
    /\ loop_pc' = "select"
    /\ next_client_id <= MaxClientId
    /\ LET new_client_fd == accept_connection
       IN IF client_count >= MAX_CLIENTS
          THEN UNCHANGED <<clients, clients_count, next_client_id,
                           client_fds, client_count>>
          ELSE LET reg == connection_manager_add_from_fd(Registry, new_client_fd)
                   slot == free_slot_from(client_fds, 1)
               IN /\ clients' = reg.list
                  /\ clients_count' = reg.count
                  /\ next_client_id' = reg.next_id
                  /\ IF slot = 0
                     THEN UNCHANGED <<client_fds, client_count>>
                     ELSE /\ client_fds' = [client_fds EXCEPT ![slot] = new_client_fd]
                          /\ client_count' = client_count + 1
    /\ UNCHANGED <<users, user_id_counter, handled, writes, api_op,
                   server_running>>
    /\ UNCHANGED codec_vars
    /\ UNCHANGED app_vars

\* a client socket is readable and read() returns a frame
HandleData ==
    /\ handled = NULL
    /\ loop_pc = "select" /\ server_running
    /\ \E client_fd \in OpenFds, buffer \in Frames, bad \in SUBSET OpenFds :
          LET r == client_handler_handle(clients, clients_count, users,
                                         client_fd, buffer, bad)
          IN /\ clients' = r.cl
             /\ writes' = r.w
             /\ handled' = [fd |-> client_fd, buffer |-> buffer]
    /\ UNCHANGED <<clients_count, next_client_id, users, user_id_counter,
                   client_fds, client_count, api_op, server_running, loop_pc>>
    /\ UNCHANGED codec_vars
    /\ UNCHANGED app_vars

\* a close that frees the descriptor's slot and leaves its registry entry
HandleClose_keeps_registry ==
    /\ handled = NULL
    /\ loop_pc = "select" /\ server_running
    /\ \E client_fd \in OpenFds :
          LET slot == slot_of_from(client_fds, client_fd, 1)
          IN /\ client_fds' = [client_fds EXCEPT ![slot] = -1]
             /\ client_count' = client_count - 1
    /\ UNCHANGED <<clients, clients_count, next_client_id>>
    /\ UNCHANGED <<users, user_id_counter, handled, writes, api_op,
                   server_running, loop_pc>>
    /\ UNCHANGED codec_vars
    /\ UNCHANGED app_vars

\* a client socket is readable and read() returns 0 or fails:
\* client_handler_close, which calls event_loop_remove_fd
HandleClose ==
    /\ handled = NULL
    /\ loop_pc = "select" /\ server_running
    /\ \E client_fd \in OpenFds :
          LET slot == slot_of_from(client_fds, client_fd, 1)
              reg == connection_manager_remove(Registry, client_fd)
          IN /\ client_fds' = [client_fds EXCEPT ![slot] = -1]
             /\ client_count' = client_count - 1
             /\ clients' = reg.list
             /\ clients_count' = reg.count
             /\ next_client_id' = reg.next_id
    /\ UNCHANGED <<users, user_id_counter, handled, writes, api_op,
                   server_running, loop_pc>>
    /\ UNCHANGED codec_vars
    /\ UNCHANGED app_vars

\* client_handler_handle returns and the loop goes back to select()
ReturnToSelect ==
    /\ handled # NULL
    /\ handled' = NULL
    /\ writes' = <<>>
    /\ UNCHANGED <<clients, clients_count, next_client_id, users,
                   user_id_counter, client_fds, client_count, api_op,
                   server_running, loop_pc>>
    /\ UNCHANGED codec_vars
    /\ UNCHANGED app_vars

\* server.c main: storage_init, connection_manager_init, event_loop_init
ServerInit ==
    /\ clients = <<>>
    /\ clients_count = 0
    /\ next_client_id = 1
    /\ users = user_store_init_defaults.list
    /\ user_id_counter = user_store_init_defaults.counter
    /\ client_fds = [i \in 1..MAX_CLIENTS |-> -1]
    /\ client_count = 0
    /\ handled = NULL
    /\ writes = <<>>
    /\ api_op = "none"
    /\ server_running = TRUE
    /\ loop_pc = "select"

\* client.c client_init, before any connection
AppInit ==
    /\ app_state = "DISCONNECTED"
    /\ app_running = FALSE
    /\ app_sockfd = -1
    /\ app_username = ""
    /\ app_pc = "idle"
    /\ app_ret = [op |-> "init", ret |-> 0]
    /\ recv_pc = "none"
    /\ link = "none"
    /\ to_server = <<>>
    /\ to_client = <<>>

Init ==
    /\ ServerInit
    /\ AppInit
    /\ codec_in = NULL
    /\ codec_out = NULL
    /\ codec_op = "none"

Next ==
    \/ AcceptClient
    \/ HandleData
    \/ HandleClose
    \/ ReturnToSelect

Spec == Init /\ [][Next]_vars

-----------------------------------------------------------------------------
(* The codec called directly, as tests/test_protocol.c and                 *)
(* tests/test_builder.c call it: codec_in is the argument, tagged with its *)
(* kind, codec_out the value returned, codec_op the call just made.        *)

\* the characters of the strings: the three the codec escapes, the letter
\* that stands for an escaped newline, and a plain one
CodecAlphabet == {"a", "n", "|", "\\", "\n"}

\* the strings over CodecAlphabet of length n at most
RECURSIVE StringsUpTo(_)
StringsUpTo(n) ==
    IF n = 0 THEN {""}
    ELSE LET shorter == StringsUpTo(n - 1)
         IN shorter \cup {s \o c : s \in shorter, c \in CodecAlphabet}

CodecNames == {"alice", "", "a|b", "\\\n"}
CodecTypes == {MSG_TYPE_MSG, MSG_TYPE_LOGIN, MSG_TYPE_OK}
CodecTimestamps == {"", "t", "1|2"}

\* the Messages handed to serialize_message
CodecRecords ==
    [type : CodecTypes, sender : CodecNames, receiver : CodecNames,
     timestamp : CodecTimestamps, content : StringsUpTo(MaxContentLen)]

\* the pieces between the separators that follow the timestamp
CodecPieces == {"0", "x", ""}
CodecPieceSeqs == [1..2 -> CodecPieces] \cup [1..3 -> CodecPieces]

RECURSIVE JoinFrom(_, _)
JoinFrom(pieces, i) ==
    IF i > Len(pieces) THEN ""
    ELSE IF i = Len(pieces) THEN pieces[i]
    ELSE pieces[i] \o FIELD_DELIMITER \o JoinFrom(pieces, i + 1)

\* a line written field by field, with the fields it was written from
LineOf(type, sender, receiver, timestamp, pieces) ==
    [tag |-> "raw",
     val |-> type \o FIELD_DELIMITER \o sender \o FIELD_DELIMITER \o receiver
             \o FIELD_DELIMITER \o timestamp \o FIELD_DELIMITER
             \o JoinFrom(pieces, 1) \o NEWLINE,
     parts |-> [type |-> type, sender |-> sender, receiver |-> receiver,
                timestamp |-> timestamp, pieces |-> pieces]]

\* the lines handed to parse_message: lines with more than four separators,
\* and the replies of the builder
CodecLines ==
    {LineOf(type, "server", "client", "t", pieces) :
        type \in {MSG_TYPE_OK, MSG_TYPE_ERROR, MSG_TYPE_MSG},
        pieces \in CodecPieceSeqs}
    \cup
    {[tag |-> "raw",
      val |-> build_success_msg("Login successful"),
      parts |-> [type |-> MSG_TYPE_OK, sender |-> "server",
                 receiver |-> "client", timestamp |-> get_current_timestamp,
                 pieces |-> <<"0", "Login successful">>]],
     [tag |-> "raw",
      val |-> build_error_msg(ERROR_AUTH_FAILED, "Invalid credentials"),
      parts |-> [type |-> MSG_TYPE_ERROR, sender |-> "server",
                 receiver |-> "client", timestamp |-> get_current_timestamp,
                 pieces |-> <<"1001", "Invalid credentials">>]]}

\* the lines of one to MaxFields fields without special characters
CodecFieldTexts == {"", "A", "bc"}
CodecFieldSeqs == UNION {[1..n -> CodecFieldTexts] : n \in 1..MaxFields}
CodecFieldLines ==
    {[tag |-> "fields", val |-> JoinFrom(fields, 1) \o NEWLINE,
      fields |-> fields] : fields \in CodecFieldSeqs}

\* the records of MaxShortLen bytes at most, made of a letter and separators
RECURSIVE ShortRecords(_)
ShortRecords(n) ==
    IF n = 0 THEN {""}
    ELSE LET shorter == ShortRecords(n - 1)
         IN shorter \cup {s \o c : s \in shorter, c \in {"a", FIELD_DELIMITER}}

\* s repeated 2^k times
RECURSIVE Doubled(_, _)
Doubled(s, k) == IF k = 0 THEN s ELSE Doubled(s \o s, k - 1)

\* a record one byte longer than validate_message allows
LongRecord == "MSG|alice|bob|t|" \o Doubled("x", 10) \o NEWLINE

\* records that end in backslashes, with and without the newline, and the
\* lines of tests/test_protocol.c test_validation
CodecByteRecords ==
    { "MSG|alice|bob|t|hi\\",
      "MSG|alice|bob|t|hi\\\n",
      "MSG|alice|bob|t|hi\\\\",
      "MSG|alice|bob|t|hi\\\\\n",
      "MSG|alice|bob|t|hi\\\\\\",
      "MSG|alice|bob|t|hi\\\\\\\n",
      "MSG|alice|bob|t|hi\n",
      "LOGIN|alice|server|time|pass\n",
      "TOO|FEW|FIELDS\n",
      "TOO|MANY|FIELDS|EXTRA|EXTRA|EXTRA\n",
      LongRecord }

CodecBytes ==
    {[tag |-> "bytes", val |-> s] :
        s \in (ShortRecords(MaxShortLen) \ {""}) \cup CodecByteRecords}

CodecInputs ==
    {[tag |-> "field", val |-> s] : s \in StringsUpTo(MaxFieldLen)}
    \cup {[tag |-> "record", val |-> r] : r \in CodecRecords}
    \cup CodecLines
    \cup CodecFieldLines
    \cup CodecBytes

CodecEscape ==
    /\ codec_op = "input"
    /\ codec_in.tag = "field"
    /\ codec_out' = escape_field(codec_in.val)
    /\ codec_op' = "escape"
    /\ UNCHANGED codec_in
    /\ UNCHANGED server_vars
    /\ UNCHANGED app_vars

CodecUnescape ==
    /\ codec_op = "escape"
    /\ codec_out' = unescape_field(codec_out)
    /\ codec_op' = "unescape"
    /\ UNCHANGED codec_in
    /\ UNCHANGED server_vars
    /\ UNCHANGED app_vars

CodecSerialize ==
    /\ codec_op = "input"
    /\ codec_in.tag = "record"
    /\ codec_out' = serialize_message(codec_in.val)
    /\ codec_op' = "serialize"
    /\ UNCHANGED codec_in
    /\ UNCHANGED server_vars
    /\ UNCHANGED app_vars

\* parse_message of a line, or of what serialize_message returned
CodecParse ==
    /\ \/ /\ codec_op = "input"
          /\ codec_in.tag = "raw"
          /\ codec_out' = parse_message(codec_in.val)
          /\ codec_op' = "parse"
       \/ /\ codec_op = "serialize"
          /\ codec_out' = parse_message(codec_out)
          /\ codec_op' = "reparse"
       \/ /\ codec_op = "input"
          /\ codec_in.tag = "bytes"
          /\ codec_out' = parse_message(codec_in.val)
          /\ codec_op' = "parse_bytes"
    /\ UNCHANGED codec_in
    /\ UNCHANGED server_vars
    /\ UNCHANGED app_vars

CodecValidate ==
    /\ codec_op = "input"
    /\ codec_in.tag \in {"fields", "bytes"}
    /\ codec_out' = validate_message(codec_in.val)
    /\ codec_op' = "validate"
    /\ UNCHANGED codec_in
    /\ UNCHANGED server_vars
    /\ UNCHANGED app_vars

InitCodec ==
    /\ ServerInit
    /\ AppInit
    /\ codec_in \in CodecInputs
    /\ codec_out = NULL
    /\ codec_op = "input"

NextCodec ==
    \/ CodecEscape
    \/ CodecUnescape
    \/ CodecSerialize
    \/ CodecParse
    \/ CodecValidate

SpecCodec == InitCodec /\ [][NextCodec]_vars

-----------------------------------------------------------------------------
(* Shutdown: tcp_server.c signal_handler, event_loop_run's loop condition  *)
(* and event_loop_stop.  The listening socket is blocking and select()     *)
(* leaves read_fds as the loop filled it when a signal interrupts it, so   *)
(* the loop goes on to accept() after EINTR.                               *)

\* event_loop_stop: close and remove_client for every slot in use, from slot i
RECURSIVE event_loop_stop(_, _, _)
event_loop_stop(reg, fds, i) ==
    IF i > MAX_CLIENTS THEN [reg |-> reg, fds |-> fds]
    ELSE IF fds[i] > 0
    THEN event_loop_stop(connection_manager_remove(reg, fds[i]),
                         [fds EXCEPT ![i] = -1], i + 1)
    ELSE event_loop_stop(reg, fds, i + 1)

\* SIGINT or SIGTERM: signal_handler clears server_running.  A signal that
\* arrives while the loop waits in select() makes select() return EINTR,
\* and the loop then calls accept() on the listening socket
Signal ==
    /\ server_running
    /\ server_running' = FALSE
    /\ \E in_select \in BOOLEAN :
          /\ in_select => handled = NULL
          /\ loop_pc' = IF in_select THEN "accept" ELSE "select"
    /\ UNCHANGED <<clients, clients_count, next_client_id, users,
                   user_id_counter, client_fds, client_count, handled,
                   writes, api_op>>
    /\ UNCHANGED codec_vars
    /\ UNCHANGED app_vars

\* the loop condition fails: event_loop_run returns, main calls
\* event_loop_stop and tcp_server_stop
LoopExit ==
    /\ loop_pc = "select"
    /\ ~server_running
    /\ handled = NULL
    /\ LET r == event_loop_stop(Registry, client_fds, 1)
       IN /\ clients' = r.reg.list
          /\ clients_count' = r.reg.count
          /\ next_client_id' = r.reg.next_id
          /\ client_fds' = r.fds
    /\ client_count' = 0
    /\ loop_pc' = "stopped"
    /\ UNCHANGED <<users, user_id_counter, handled, writes, api_op,
                   server_running>>
    /\ UNCHANGED codec_vars
    /\ UNCHANGED app_vars

NextLoop ==
    \/ Next
    \/ Signal
    \/ LoopExit

\* the server's own steps are taken when they can be; what the clients and
\* the operator do (connect, send, close, signal) is left to them
SpecLoop ==
    /\ Init
    /\ [][NextLoop]_vars
    /\ WF_vars(ReturnToSelect)
    /\ WF_vars(LoopExit)

-----------------------------------------------------------------------------
(* The registry and session interface called directly, as the unit tests   *)
(* of tests/test_connection.c, tests/test_session.c and tests/test_core.c  *)
(* call it.  api_op names the call just made.                              *)

ApiFds == {100, 101}
ApiUsernames == {"alice", "bob"}
ApiPasswords == {"alice123", "bob123", "wrong"}
ApiStatuses == {CLIENT_STATUS_CONNECTED, CLIENT_STATUS_AUTHENTICATED}

ApiAdd ==
    /\ next_client_id <= MaxClientId
    /\ \E fd \in ApiFds :
          LET reg == connection_manager_add_from_fd(Registry, fd)
          IN /\ clients' = reg.list
             /\ clients_count' = reg.count
             /\ next_client_id' = reg.next_id
    /\ api_op' = "add"
    /\ UNCHANGED <<users, user_id_counter, client_fds, client_count,
                   handled, writes, server_running, loop_pc>>
    /\ UNCHANGED codec_vars
    /\ UNCHANGED app_vars

ApiRemove ==
    /\ \E fd \in ApiFds :
          LET reg == connection_manager_remove(Registry, fd)
          IN /\ clients' = reg.list
             /\ clients_count' = reg.count
             /\ next_client_id' = reg.next_id
    /\ api_op' = "remove"
    /\ UNCHANGED <<users, user_id_counter, client_fds, client_count,
                   handled, writes, server_running, loop_pc>>
    /\ UNCHANGED codec_vars
    /\ UNCHANGED app_vars

\* bind_identity, called with the identity of a user of the store
ApiSetAuth ==
    /\ \E fd \in ApiFds, username \in ApiUsernames :
          LET user == user_store_find_by_username(users, username)
          IN clients' = connection_manager_set_auth(clients, fd, user.user_id,
                                                    user.username)
    /\ api_op' = "set_auth"
    /\ UNCHANGED <<clients_count, next_client_id, users, user_id_counter,
                   client_fds, client_count, handled, writes, server_running, loop_pc>>
    /\ UNCHANGED codec_vars
    /\ UNCHANGED app_vars

ApiSetStatus ==
    /\ \E fd \in ApiFds, status \in ApiStatuses :
          clients' = connection_manager_set_status(clients, fd, status)
    /\ api_op' = "set_status"
    /\ UNCHANGED <<clients_count, next_client_id, users, user_id_counter,
                   client_fds, client_count, handled, writes, server_running, loop_pc>>
    /\ UNCHANGED codec_vars
    /\ UNCHANGED app_vars

ApiAuthenticate ==
    /\ \E fd \in ApiFds, username \in ApiUsernames, password \in ApiPasswords :
          clients' = session_manager_authenticate(clients, users, fd,
                                                  username, password).cl
    /\ api_op' = "authenticate"
    /\ UNCHANGED <<clients_count, next_client_id, users, user_id_counter,
                   client_fds, client_count, handled, writes, server_running, loop_pc>>
    /\ UNCHANGED codec_vars
    /\ UNCHANGED app_vars

ApiLogout ==
    /\ \E fd \in ApiFds : clients' = session_manager_logout(clients, fd)
    /\ api_op' = "logout"
    /\ UNCHANGED <<clients_count, next_client_id, users, user_id_counter,
                   client_fds, client_count, handled, writes, server_running, loop_pc>>
    /\ UNCHANGED codec_vars
    /\ UNCHANGED app_vars

\* the names and the credential user_store_add is called with: a stored
\* name, a new one, and names the username rule excludes (a separator, the
\* empty name, 32 characters)
ApiNewUsernames ==
    {"alice", "new_user", "guest_2", "a|b", "",
     "u123456789u123456789u123456789u1"}
ApiNewPasswords == {"newpass"}

ApiAddUser ==
    /\ Len(users) < Len(user_store_init_defaults.list) + MaxNewUsers
    /\ \E username \in ApiNewUsernames, password \in ApiNewPasswords :
          LET r == user_store_add([list |-> users, counter |-> user_id_counter],
                                  username, password)
          IN /\ users' = r.list
             /\ user_id_counter' = r.counter
    /\ api_op' = "add_user"
    /\ UNCHANGED <<clients, clients_count, next_client_id, client_fds,
                   client_count, handled, writes, server_running, loop_pc>>
    /\ UNCHANGED codec_vars
    /\ UNCHANGED app_vars

NextApi ==
    \/ ApiAdd
    \/ ApiRemove
    \/ ApiSetAuth
    \/ ApiSetStatus
    \/ ApiAuthenticate
    \/ ApiLogout

SpecApi == Init /\ [][NextApi]_vars

\* the credential store called directly, as tests/test_core.c calls it
NextStore == ApiAddUser

SpecStore == Init /\ [][NextStore]_vars

-----------------------------------------------------------------------------
(* The client program: client/client.c.  A foreground thread calls the     *)
(* client_* functions one at a time (app_pc says where it stands) and the  *)
(* reader thread runs recv_thread_func.  The other end of the connection   *)
(* is the server above, which holds the connection on descriptor PeerFd.   *)

\* the descriptor tcp_connect returns; the client only tests it against 0
APP_FD == 3

\* the server's descriptor for the client's connection
PeerFd == SERVER_FD + 1

\* what the user types at the login prompt
AppLogins == {<<"alice", "alice123">>, <<"alice", "bad">>}

\* the calls ui.c and the client's main make
AppCalls == {"connect", "disconnect", "login", "logout", "start", "stop"}

\* builder.c: build_login_msg and build_logout_msg return NULL for a name
\* that is not a valid username
build_login_is_null(username) == ~is_valid_username(username)

build_login_msg(username, password) ==
    snprintf(256, MSG_TYPE_LOGIN \o "|" \o username \o "|server|"
                  \o get_current_timestamp \o "|" \o password \o "\n")

build_logout_is_null(username) == ~is_valid_username(username)

build_logout_msg(username) ==
    snprintf(256, MSG_TYPE_LOGOUT \o "|" \o username \o "|server|"
                  \o get_current_timestamp \o "|\n")

DigitChars == {"0", "1", "2", "3", "4", "5", "6", "7", "8", "9"}

digit_value(c) == CHOOSE d \in 0..9 : ToString(d) = c

\* atoi on the digits of s from position i on
RECURSIVE atoi_from(_, _, _)
atoi_from(s, i, acc) ==
    IF i > Len(s) THEN acc
    ELSE IF At(s, i) \notin DigitChars THEN acc
    ELSE atoi_from(s, i + 1, acc * 10 + digit_value(At(s, i)))

atoi(s) ==
    IF Len(s) > 0 /\ At(s, 1) = "-" THEN 0 - atoi_from(s, 2, 0)
    ELSE atoi_from(s, 1, 0)

\* recv_thread_func: the code in front of the first '|' of the content,
\* -1 when the content has no '|'
response_code(content) ==
    LET seps == {i \in 1..Len(content) : At(content, i) = FIELD_DELIMITER}
    IN IF seps = {} THEN -1
       ELSE LET sep == CHOOSE i \in seps : \A j \in seps : i <= j
                n == IF sep - 1 >= 16 THEN 15 ELSE sep - 1
            IN atoi(SubSeq(content, 1, n))

\* the foreground call returns
Return(op, ret) ==
    /\ app_pc' = "idle"
    /\ app_ret' = [op |-> op, ret |-> ret]

\* the server variables the client's connection never touches
peer_untouched == <<users, user_id_counter, client_fds, client_count, handled,
                    writes, api_op, server_running, loop_pc>>
registry_vars == <<clients, clients_count, next_client_id>>

\* the user picks an entry of the menu
AppCall ==
    /\ app_pc = "idle"
    /\ \E call \in AppCalls : app_pc' = call
    /\ UNCHANGED <<app_state, app_running, app_sockfd, app_username, app_ret,
                   recv_pc, link, to_server, to_client>>
    /\ UNCHANGED server_vars
    /\ UNCHANGED codec_vars

\* client_connect up to the call of tcp_connect
client_connect ==
    /\ app_pc = "connect"
    /\ IF app_state # "DISCONNECTED"
       THEN /\ Return("connect", -1)
            /\ UNCHANGED app_state
       ELSE /\ app_state' = "CONNECTING"
            /\ app_pc' = "connect_tcp"
            /\ UNCHANGED app_ret
    /\ UNCHANGED <<app_running, app_sockfd, app_username, recv_pc, link,
                   to_server, to_client>>
    /\ UNCHANGED server_vars
    /\ UNCHANGED codec_vars

\* tcp_connect returns: the server accepts the connection (add_client) or
\* the connection fails
client_connect_tcp ==
    /\ app_pc = "connect_tcp"
    /\ \E connected \in BOOLEAN :
          IF connected /\ next_client_id <= MaxClientId
          THEN LET reg == connection_manager_add_from_fd(Registry, PeerFd)
               IN /\ clients' = reg.list
                  /\ clients_count' = reg.count
                  /\ next_client_id' = reg.next_id
                  /\ app_sockfd' = APP_FD
                  /\ link' = "up"
                  /\ app_state' = "CONNECTED"
                  /\ Return("connect", 0)
          ELSE /\ app_sockfd' = -1
               /\ app_state' = "DISCONNECTED"
               /\ Return("connect", -1)
               /\ UNCHANGED <<registry_vars, link>>
    /\ to_server' = <<>>
    /\ to_client' = <<>>
    /\ UNCHANGED <<app_running, app_username, recv_pc>>
    /\ UNCHANGED peer_untouched
    /\ UNCHANGED codec_vars

\* client_disconnect up to pthread_join; the server reads the end of the
\* stream and removes the connection (client_handler_close)
client_disconnect ==
    /\ app_pc = "disconnect"
    /\ IF app_state = "DISCONNECTED"
       THEN /\ Return("disconnect", 0)
            /\ UNCHANGED <<app_state, app_running, app_sockfd, app_username,
                           link, to_server, to_client, registry_vars>>
       ELSE LET reg == IF link = "up"
                       THEN connection_manager_remove(Registry, PeerFd)
                       ELSE Registry
            IN /\ app_running' = FALSE
               /\ app_sockfd' = -1
               /\ link' = "none"
               /\ to_server' = <<>>
               /\ to_client' = <<>>
               /\ clients' = reg.list
               /\ clients_count' = reg.count
               /\ next_client_id' = reg.next_id
               /\ app_state' = "DISCONNECTED"
               /\ app_username' = ""
               /\ app_pc' = "disconnect_join"
               /\ UNCHANGED app_ret
    /\ UNCHANGED recv_pc
    /\ UNCHANGED peer_untouched
    /\ UNCHANGED codec_vars

\* pthread_join(client->recv_thread) returns, when there is a thread
client_disconnect_join ==
    /\ app_pc = "disconnect_join"
    /\ recv_pc # "loop"
    /\ recv_pc' = "none"
    /\ Return("disconnect", 0)
    /\ UNCHANGED <<app_state, app_running, app_sockfd, app_username, link,
                   to_server, to_client>>
    /\ UNCHANGED server_vars
    /\ UNCHANGED codec_vars

\* tcp_send of a frame: on a connection that is up the frame is queued for
\* the server; on a lost one send() fails or the frame is dropped
tcp_send(frame, sent) ==
    /\ link = "up" => sent
    /\ Len(to_server) < MaxInFlight
    /\ to_server' = IF link = "up" THEN Append(to_server, frame) ELSE to_server

\* client_login up to the wait for the acknowledgement
client_login ==
    /\ app_pc = "login"
    /\ \E cred \in AppLogins, sent \in BOOLEAN :
          LET username == cred[1]
              password == cred[2]
          IN IF app_state # "CONNECTED" \/ build_login_is_null(username)
             THEN /\ Return("login", -1)
                  /\ UNCHANGED <<app_username, to_server>>
             ELSE /\ tcp_send(build_login_msg(username, password), sent)
                  /\ IF sent
                     THEN /\ app_username' = safe_strcpy(username, MAX_USERNAME_LEN)
                          /\ app_pc' = "login_wait"
                          /\ UNCHANGED app_ret
                     ELSE /\ Return("login", -1)
                          /\ UNCHANGED app_username
    /\ UNCHANGED <<app_state, app_running, app_sockfd, recv_pc, link, to_client>>
    /\ UNCHANGED server_vars
    /\ UNCHANGED codec_vars

\* the polling loop of client_login sees AUTHENTICATED, or its 5 s are over
client_login_wait ==
    /\ app_pc = "login_wait"
    /\ Return("login", IF app_state = "AUTHENTICATED" THEN 0 ELSE -1)
    /\ UNCHANGED <<app_state, app_running, app_sockfd, app_username, recv_pc,
                   link, to_server, to_client>>
    /\ UNCHANGED server_vars
    /\ UNCHANGED codec_vars

\* client_logout: the state test under the lock
client_logout ==
    /\ app_pc = "logout"
    /\ IF app_state # "AUTHENTICATED"
       THEN Return("logout", -1)
       ELSE app_pc' = "logout_send" /\ UNCHANGED app_ret
    /\ UNCHANGED <<app_state, app_running, app_sockfd, app_username, recv_pc,
                   link, to_server, to_client>>
    /\ UNCHANGED server_vars
    /\ UNCHANGED codec_vars

\* client_logout: build_logout_msg and tcp_send
client_logout_send ==
    /\ app_pc = "logout_send"
    /\ \E sent \in BOOLEAN :
          IF build_logout_is_null(app_username)
          THEN /\ Return("logout", -1)
               /\ UNCHANGED to_server
          ELSE /\ tcp_send(build_logout_msg(app_username), sent)
               /\ IF sent
                  THEN app_pc' = "logout_done" /\ UNCHANGED app_ret
                  ELSE Return("logout", -1)
    /\ UNCHANGED <<app_state, app_running, app_sockfd, app_username, recv_pc,
                   link, to_client>>
    /\ UNCHANGED server_vars
    /\ UNCHANGED codec_vars

\* client_logout: the state goes back to CONNECTED under the lock
client_logout_done ==
    /\ app_pc = "logout_done"
    /\ app_state' = "CONNECTED"
    /\ app_username' = ""
    /\ Return("logout", 0)
    /\ UNCHANGED <<app_running, app_sockfd, recv_pc, link, to_server, to_client>>
    /\ UNCHANGED server_vars
    /\ UNCHANGED codec_vars

\* client_start: the tests under the lock and pthread_create
client_start ==
    /\ app_pc = "start"
    /\ IF app_state \notin {"CONNECTED", "AUTHENTICATED"} \/ app_running
       THEN /\ Return("start", -1)
            /\ UNCHANGED <<app_running, recv_pc>>
       ELSE /\ app_running' = TRUE
            /\ recv_pc' = "loop"
            /\ Return("start", 0)
    /\ UNCHANGED <<app_state, app_sockfd, app_username, link, to_server,
                   to_client>>
    /\ UNCHANGED server_vars
    /\ UNCHANGED codec_vars

\* client_stop up to pthread_join
client_stop ==
    /\ app_pc = "stop"
    /\ app_running' = FALSE
    /\ app_pc' = "stop_join"
    /\ UNCHANGED <<app_state, app_sockfd, app_username, app_ret, recv_pc, link,
                   to_server, to_client>>
    /\ UNCHANGED server_vars
    /\ UNCHANGED codec_vars

client_stop_join ==
    /\ app_pc = "stop_join"
    /\ recv_pc # "loop"
    /\ recv_pc' = "none"
    /\ Return("stop", 0)
    /\ UNCHANGED <<app_state, app_running, app_sockfd, app_username, link,
                   to_server, to_client>>
    /\ UNCHANGED server_vars
    /\ UNCHANGED codec_vars

\* recv_thread_func: the loop condition client->running is false
recv_thread_exit ==
    /\ recv_pc = "loop"
    /\ ~app_running
    /\ recv_pc' = "exited"
    /\ UNCHANGED <<app_state, app_running, app_sockfd, app_username, app_pc,
                   app_ret, link, to_server, to_client>>
    /\ UNCHANGED server_vars
    /\ UNCHANGED codec_vars

\* recv_thread_func: tcp_receive returns -1 (the descriptor is -1, or the
\* peer closed and nothing is left to read); the thread leaves the loop
recv_thread_lost ==
    /\ recv_pc = "loop"
    /\ app_running
    /\ app_sockfd = -1 \/ (link = "lost" /\ to_client = <<>>)
    /\ app_state' = "DISCONNECTED"
    /\ recv_pc' = "exited"
    /\ UNCHANGED <<app_running, app_sockfd, app_username, app_pc, app_ret,
                   link, to_server, to_client>>
    /\ UNCHANGED server_vars
    /\ UNCHANGED codec_vars

\* recv_thread_func: tcp_receive returns a frame
recv_thread_func ==
    /\ recv_pc = "loop"
    /\ app_running
    /\ app_sockfd # -1
    /\ to_client # <<>>
    /\ LET msg == parse_message(Head(to_client))
       IN IF msg = NULL THEN UNCHANGED app_state
          ELSE IF msg.type = MSG_TYPE_OK /\ response_code(msg.content) = 0
          THEN app_state' = "AUTHENTICATED"
          ELSE UNCHANGED app_state
    /\ to_client' = Tail(to_client)
    /\ UNCHANGED <<app_running, app_sockfd, app_username, app_pc, app_ret,
                   recv_pc, link, to_server>>
    /\ UNCHANGED server_vars
    /\ UNCHANGED codec_vars

\* the frames among the writes w made on descriptor fd, in order
FramesTo(w, fd) ==
    LET to_fd == SelectSeq(w, LAMBDA x : x.fd = fd)
    IN [i \in 1..Len(to_fd) |-> to_fd[i].data]

\* the server reads the client's next frame: client_handler_handle
PeerHandle ==
    /\ link = "up"
    /\ to_server # <<>>
    /\ Len(to_client) < MaxInFlight
    /\ LET r == client_handler_handle(clients, clients_count, users, PeerFd,
                                      Head(to_server), {})
       IN /\ clients' = r.cl
          /\ to_client' = to_client \o FramesTo(r.w, PeerFd)
    /\ to_server' = Tail(to_server)
    /\ UNCHANGED <<clients_count, next_client_id>>
    /\ UNCHANGED peer_untouched
    /\ UNCHANGED <<app_state, app_running, app_sockfd, app_username, app_pc,
                   app_ret, recv_pc, link>>
    /\ UNCHANGED codec_vars

\* the connection is lost: the server's read fails and it removes the
\* connection (client_handler_close); what it had written can still be read
LinkLost ==
    /\ link = "up"
    /\ link' = "lost"
    /\ to_server' = <<>>
    /\ LET reg == connection_manager_remove(Registry, PeerFd)
       IN /\ clients' = reg.list
          /\ clients_count' = reg.count
          /\ next_client_id' = reg.next_id
    /\ UNCHANGED peer_untouched
    /\ UNCHANGED <<app_state, app_running, app_sockfd, app_username, app_pc,
                   app_ret, recv_pc, to_client>>
    /\ UNCHANGED codec_vars

NextClient ==
    \/ AppCall
    \/ client_connect
    \/ client_connect_tcp
    \/ client_disconnect
    \/ client_disconnect_join
    \/ client_login
    \/ client_login_wait
    \/ client_logout
    \/ client_logout_send
    \/ client_logout_done
    \/ client_start
    \/ client_stop
    \/ client_stop_join
    \/ recv_thread_exit
    \/ recv_thread_lost
    \/ recv_thread_func
    \/ PeerHandle
    \/ LinkLost

SpecClient == Init /\ [][NextClient]_vars

-----------------------------------------------------------------------------
(* What the properties below talk about. *)

\* the registry entries Authenticated under a username
AuthenticatedAs(cl, username) ==
    {i \in 1..Len(cl) : /\ cl[i].status = CLIENT_STATUS_AUTHENTICATED
                        /\ cl[i].username = username}

\* a bound identity is present on the Client
HasIdentity(client) == Len(client.username) > 0 /\ client.user_id # -1

\* status = Authenticated <=> bound identity present, for every Client
IdentityMatchesStatus(cl) ==
    \A i \in 1..Len(cl) :
        (cl[i].status = CLIENT_STATUS_AUTHENTICATED) <=> HasIdentity(cl[i])

-----------------------------------------------------------------------------
(* C1: in every reachable server state at most one registry entry with     *)
(* status Authenticated is bound to any given username, also after a       *)
(* second connection sends a valid LOGIN for a username that is already    *)
(* Authenticated on another handle.  The code does not keep this:          *)
(* session_manager_authenticate never looks for another entry bound to the *)
(* username.                                                               *)
C1_OneAuthenticatedPerUsername ==
    \A i \in 1..Len(clients) :
        clients[i].status = CLIENT_STATUS_AUTHENTICATED
            => Cardinality(AuthenticatedAs(clients, clients[i].username)) <= 1

(* C2: for every Client in the registry, in every state reachable by any   *)
(* sequence of add, remove, set_auth, set_status, authenticate and logout, *)
(* status = Authenticated if and only if a bound identity is present.      *)
(* This is the claim as written; set_status breaks it.                     *)
C2_IdentityIffAuthenticated == IdentityMatchesStatus(clients)

(* C2, amended: every call other than set_status (add, remove, set_auth    *)
(* with the identity of a stored user, authenticate, logout) made in a     *)
(* state where status = Authenticated <=> bound identity present for every *)
(* Client leaves it so.                                                    *)
C2_PreservedExceptSetStatus ==
    [][(api_op' # "set_status" /\ IdentityMatchesStatus(clients))
           => IdentityMatchesStatus(clients')]_vars

\* C2 witness: logout has just unbound an identity, and another Client is
\* still Authenticated with its identity
C2_Witness ==
    /\ api_op = "logout"
    /\ IdentityMatchesStatus(clients)
    /\ \E i, j \in 1..Len(clients) :
          /\ clients[i].status = CLIENT_STATUS_AUTHENTICATED
          /\ clients[j].status = CLIENT_STATUS_CONNECTED

-----------------------------------------------------------------------------
(* The read being handled and what it wrote. *)

\* the record parsed from the frame just read (NULL when it does not parse)
Record == parse_message(handled.buffer)

\* the registry entry of the handle the frame was read from
Source == connection_manager_find_by_fd(clients, handled.fd)

\* the frame just read is a record of one of the types, from a handle
\* Authenticated as the record's sender
FromVerifiedSender(types) ==
    /\ handled # NULL
    /\ Record # NULL
    /\ Record.type \in types
    /\ Source # NULL
    /\ Source.status = CLIENT_STATUS_AUTHENTICATED
    /\ Source.username = Record.sender

\* the writes made on one descriptor, in order
WritesTo(fd) == SelectSeq(writes, LAMBDA w : w.fd = fd)

\* the writes made on the other descriptors
WritesElsewhere(fd) == SelectSeq(writes, LAMBDA w : w.fd # fd)

AllWritesOk == \A i \in 1..Len(writes) : writes[i].ok

\* the frame is a reply (OK or ERROR) carrying the code
IsReply(data, code) ==
    LET r == parse_message(data)
    IN /\ r # NULL
       /\ r.type = (IF code = RESPONSE_SUCCESS THEN MSG_TYPE_OK ELSE MSG_TYPE_ERROR)
       /\ HasPrefix(r.content, ToString(code) \o "|")

IsAnyReply(data) ==
    LET r == parse_message(data)
    IN r # NULL /\ r.type \in {MSG_TYPE_OK, MSG_TYPE_ERROR}

\* the frame carries the record's type, sender, receiver and content
Carries(data, record) ==
    LET r == parse_message(data)
    IN /\ r # NULL
       /\ r.type = record.type
       /\ r.sender = record.sender
       /\ r.receiver = record.receiver
       /\ r.content = record.content

-----------------------------------------------------------------------------
(* C3: handling a BROADCAST record sent by an authenticated client S never *)
(* writes the broadcast frame to S's own socket: the only frame written to *)
(* S's socket while that record is handled is the OK/ERROR                 *)
(* acknowledgement.                                                        *)
C3_BroadcastNotToSender ==
    (/\ handled # NULL
     /\ Record # NULL
     /\ Record.type = MSG_TYPE_BROADCAST
     /\ session_manager_is_authenticated(clients, handled.fd))
    => /\ Len(WritesTo(handled.fd)) = 1
       /\ IsAnyReply(WritesTo(handled.fd)[1].data)

\* C3 witness: a broadcast reached another client and the sender got its OK
C3_Witness ==
    /\ FromVerifiedSender({MSG_TYPE_BROADCAST})
    /\ Len(WritesElsewhere(handled.fd)) >= 1
    /\ Len(WritesTo(handled.fd)) = 1
    /\ IsReply(WritesTo(handled.fd)[1].data, RESPONSE_SUCCESS)

(* C4: when an authenticated client on handle h sends a BROADCAST, every   *)
(* registry entry whose status is Authenticated and whose handle differs   *)
(* from h is written exactly one frame carrying TYPE=BROADCAST, the        *)
(* sender's username and the unchanged content (assuming socket writes     *)
(* succeed), whatever username that other entry is bound to.  The code     *)
(* skips entries by username, so a second handle Authenticated under the   *)
(* sender's username gets nothing.                                         *)
C4_BroadcastReachesEveryOtherHandle ==
    (FromVerifiedSender({MSG_TYPE_BROADCAST}) /\ AllWritesOk)
    => \A i \in 1..Len(clients) :
          (/\ clients[i].status = CLIENT_STATUS_AUTHENTICATED
           /\ clients[i].sockfd # handled.fd)
          => /\ Len(WritesTo(clients[i].sockfd)) = 1
             /\ Carries(WritesTo(clients[i].sockfd)[1].data, Record)

-----------------------------------------------------------------------------
(* Properties of one handling step: the frame read in the step is          *)
(* handled'.buffer, the registry before it is clients, and what it wrote   *)
(* is writes'.                                                             *)

\* the step handles a frame that parses to a record of one of the types
Handles(types) ==
    /\ handled = NULL
    /\ handled' # NULL
    /\ parse_message(handled'.buffer) # NULL
    /\ parse_message(handled'.buffer).type \in types

\* the step wrote exactly one frame, to the source handle
OneReplyToSource ==
    /\ Len(writes') = 1
    /\ writes'[1].fd = handled'.fd

(* C5: a MSG or BROADCAST record arriving on a handle Authenticated as     *)
(* user U whose sender field differs from U is answered with ERROR 1001    *)
(* "Sender mismatch", causes no write to any other client's socket, and    *)
(* leaves the handle Authenticated as U; consequently every MSG/BROADCAST  *)
(* frame delivered to a client carries as SENDER the username bound to the *)
(* handle it came from.  The code gives no reply at all to a MSG whose     *)
(* receiver is "*" or starts with "group:".                                *)
C5_SenderMismatchRejected ==
    [][Handles({MSG_TYPE_MSG, MSG_TYPE_BROADCAST})
         => LET fd == handled'.fd
                record == parse_message(handled'.buffer)
                source == connection_manager_find_by_fd(clients, fd)
            IN /\ (/\ source.status = CLIENT_STATUS_AUTHENTICATED
                   /\ record.sender # source.username)
                  => /\ OneReplyToSource
                     /\ writes'[1].data =
                            build_error_msg(ERROR_AUTH_FAILED, "Sender mismatch")
                     /\ clients' = clients
               /\ \A i \in 1..Len(writes') :
                     LET r == parse_message(writes'[i].data)
                     IN (r # NULL /\ r.type \in {MSG_TYPE_MSG, MSG_TYPE_BROADCAST})
                        => /\ source.status = CLIENT_STATUS_AUTHENTICATED
                           /\ r.sender = source.username]_vars

(* C6: a MSG, BROADCAST, GROUP or HISTORY record arriving on a handle that *)
(* is not Authenticated is answered with ERROR 1001, writes nothing to any *)
(* other client's socket, and changes no registry entry.  The code gives   *)
(* no reply at all to a MSG whose receiver is "*" or starts with "group:". *)
C6_UnauthenticatedRejected ==
    [][Handles({MSG_TYPE_MSG, MSG_TYPE_BROADCAST, MSG_TYPE_GROUP,
                MSG_TYPE_HISTORY})
         => (~session_manager_is_authenticated(clients, handled'.fd)
             => /\ OneReplyToSource
                /\ IsReply(writes'[1].data, ERROR_AUTH_FAILED)
                /\ clients' = clients)]_vars

(* C7: a MSG from an authenticated sender to a receiver whose username is  *)
(* unknown to the credential store is answered with ERROR code 1002 (user  *)
(* not found), and nothing is written to any other socket.  The code       *)
(* answers 1003: route_private_message never consults the store.           *)
C7_UnknownReceiverNotFound ==
    (/\ FromVerifiedSender({MSG_TYPE_MSG})
     /\ is_private_msg(Record)
     /\ user_store_find_by_username(users, Record.receiver) = NULL)
    => /\ Len(writes) = 1
       /\ writes[1].fd = handled.fd
       /\ IsReply(writes[1].data, ERROR_USER_NOT_FOUND)

(* C8: a MSG from an authenticated sender to a receiver that exists in the *)
(* credential store but is bound to no Authenticated client is answered    *)
(* with ERROR 1003 "User is offline", and nothing is written to any other  *)
(* socket.                                                                 *)
C8_OfflineReceiver ==
    (/\ FromVerifiedSender({MSG_TYPE_MSG})
     /\ is_private_msg(Record)
     /\ user_store_find_by_username(users, Record.receiver) # NULL
     /\ AuthenticatedAs(clients, Record.receiver) = {})
    => /\ Len(writes) = 1
       /\ writes[1].fd = handled.fd
       /\ writes[1].data = build_error_msg(ERROR_USER_OFFLINE, "User is offline")

\* C8 witness: alice, logged in next to another logged-in client, wrote to
\* charlie, who is in the store and not logged in, and was told so
C8_Witness ==
    /\ FromVerifiedSender({MSG_TYPE_MSG})
    /\ Record.receiver = "charlie"
    /\ user_store_find_by_username(users, "charlie") # NULL
    /\ \E i \in 1..Len(clients) :
          /\ clients[i].status = CLIENT_STATUS_AUTHENTICATED
          /\ clients[i].sockfd # handled.fd
    /\ Len(writes) = 1
    /\ IsReply(writes[1].data, ERROR_USER_OFFLINE)

\* the receiver of the record just read is the bound username of an
\* Authenticated client
ToOnlineReceiver ==
    /\ FromVerifiedSender({MSG_TYPE_MSG})
    /\ is_private_msg(Record)
    /\ AuthenticatedAs(clients, Record.receiver) # {}

\* exactly one frame went to a socket of a client Authenticated as the
\* receiver, carrying the record, and the sender was sent OK with code 0
DeliveredAndAcknowledged ==
    /\ Len(writes) = 2
    /\ \E i \in AuthenticatedAs(clients, Record.receiver) :
          writes[1].fd = clients[i].sockfd
    /\ Carries(writes[1].data, Record)
    /\ writes[2].fd = handled.fd
    /\ IsReply(writes[2].data, RESPONSE_SUCCESS)

(* C9: a MSG from an authenticated sender whose receiver is the bound      *)
(* username of an Authenticated client results in exactly one frame        *)
(* written to a socket of a client Authenticated as that receiver (and to  *)
(* no third party), whose parsed type, sender, receiver and content equal  *)
(* those of the sent record, and the sender receives an OK reply with code *)
(* 0.  This is the claim as written; it fails when the write to the        *)
(* receiver's socket fails.                                                *)
C9_DeliveredToReceiver == ToOnlineReceiver => DeliveredAndAcknowledged

(* C9, amended: the same, provided the write to the receiver's socket      *)
(* succeeds; when it fails the sender is sent an ERROR reply instead, and  *)
(* still nothing is written to a third party.                              *)
C9_DeliveredWhenWriteSucceeds ==
    ToOnlineReceiver
    => /\ Len(writes) = 2
       /\ \E i \in AuthenticatedAs(clients, Record.receiver) :
             writes[1].fd = clients[i].sockfd
       /\ Carries(writes[1].data, Record)
       /\ writes[2].fd = handled.fd
       /\ IF writes[1].ok
          THEN IsReply(writes[2].data, RESPONSE_SUCCESS)
          ELSE parse_message(writes[2].data).type = MSG_TYPE_ERROR

\* C9 witness: a record whose content needs escaping was delivered to the
\* receiver on another socket and acknowledged
C9_Witness ==
    /\ ToOnlineReceiver
    /\ Record.content = "a|b\nc\\nd"
    /\ writes[1].ok
    /\ writes[1].fd # handled.fd
    /\ DeliveredAndAcknowledged

(* C10: authenticate(handle, name, cred) on a Connected handle with        *)
(* credentials that match an active user succeeds and leaves the handle    *)
(* Authenticated with bound_username = name and bound_user_id = that       *)
(* user's store identity; is_user_online(name) becomes true and the        *)
(* registry count and set of handles are unchanged; the LOGIN reply is OK  *)
(* with code 0 "Login successful".                                         *)
C10_LoginBindsIdentity ==
    [][Handles({MSG_TYPE_LOGIN})
         => LET fd == handled'.fd
                record == parse_message(handled'.buffer)
                before == connection_manager_find_by_fd(clients, fd)
                after == connection_manager_find_by_fd(clients', fd)
            IN (/\ before.status = CLIENT_STATUS_CONNECTED
                /\ user_store_authenticate(users, record.sender,
                                           record.content) = 1)
               => /\ after # NULL
                  /\ after.status = CLIENT_STATUS_AUTHENTICATED
                  /\ after.username = record.sender
                  /\ after.user_id =
                        user_store_find_by_username(users, record.sender).user_id
                  /\ session_manager_is_user_online(clients', record.sender)
                  /\ clients_count' = clients_count
                  /\ Len(clients') = Len(clients)
                  /\ \A i \in 1..Len(clients) :
                        clients'[i].sockfd = clients[i].sockfd
                  /\ OneReplyToSource
                  /\ writes'[1].data = build_success_msg("Login successful")
                  /\ IsReply(writes'[1].data, RESPONSE_SUCCESS)]_vars

\* C10 witness: a LOGIN has just bound bob, with his store identity, to a
\* handle that shares the registry with another connection
C10_Witness ==
    /\ handled # NULL
    /\ Record # NULL
    /\ Record.type = MSG_TYPE_LOGIN
    /\ Record.sender = "bob"
    /\ Source.status = CLIENT_STATUS_AUTHENTICATED
    /\ Source.username = "bob"
    /\ Source.user_id = user_store_find_by_username(users, "bob").user_id
    /\ clients_count = 2
    /\ Len(writes) = 1
    /\ writes[1].data = build_success_msg("Login successful")

-----------------------------------------------------------------------------
(* Login and logout. *)

\* the credential store holds an active user with this name and password
CredentialsMatch(us, username, password) ==
    \E i \in 1..Len(us) : /\ us[i].username = username
                          /\ us[i].password = password
                          /\ us[i].is_active = 1

\* the store with every account of the name deactivated
Deactivated(us, username) ==
    [i \in 1..Len(us) |-> IF us[i].username = username
                          THEN [us[i] EXCEPT !.is_active = 0] ELSE us[i]]

(* C11: a failed authentication (unknown user, inactive user, wrong        *)
(* credential, or empty credential) on a Connected handle leaves that      *)
(* handle Connected with no bound identity and leaves every other registry *)
(* entry unchanged; the LOGIN reply is ERROR 1001.  The store of the       *)
(* server never holds an inactive user, so that case is the handler run    *)
(* against the store with the named account deactivated.                   *)
C11_FailedLoginChangesNothing ==
    [][Handles({MSG_TYPE_LOGIN})
         => LET fd == handled'.fd
                record == parse_message(handled'.buffer)
                before == connection_manager_find_by_fd(clients, fd)
                inactive == handle_login(clients,
                                         Deactivated(users, record.sender),
                                         fd, record, {})
            IN before.status = CLIENT_STATUS_CONNECTED
               => /\ ~CredentialsMatch(users, record.sender, record.content)
                     => /\ clients' = clients
                        /\ ~HasIdentity(connection_manager_find_by_fd(clients', fd))
                        /\ OneReplyToSource
                        /\ IsReply(writes'[1].data, ERROR_AUTH_FAILED)
                  /\ Len(record.content) > 0
                     => /\ inactive.cl = clients
                        /\ inactive.w =
                             <<send_to_socket(fd,
                                   build_error_msg(ERROR_AUTH_FAILED,
                                       "Invalid username or password"), {})>>]_vars

\* C11 witness: a wrong password has just been refused on a Connected
\* handle while another handle is Authenticated
C11_Witness ==
    /\ handled # NULL
    /\ Record # NULL
    /\ Record.type = MSG_TYPE_LOGIN
    /\ Record.content = "bad"
    /\ Source.status = CLIENT_STATUS_CONNECTED
    /\ \E i \in 1..Len(clients) : clients[i].status = CLIENT_STATUS_AUTHENTICATED
    /\ Len(writes) = 1
    /\ IsReply(writes[1].data, ERROR_AUTH_FAILED)

(* C12: authenticate on a handle that is already Authenticated as the same *)
(* identity returns success without re-binding: the handle's status, bound *)
(* username and bound user id are exactly what they were before the call   *)
(* (handle_login replies OK "Login successful" whenever authenticate        *)
(* returns success).                                                       *)
C12_ReauthenticateSameIdentity ==
    [][Handles({MSG_TYPE_LOGIN})
         => LET fd == handled'.fd
                record == parse_message(handled'.buffer)
                before == connection_manager_find_by_fd(clients, fd)
            IN (/\ before.status = CLIENT_STATUS_AUTHENTICATED
                /\ before.username = record.sender)
               => /\ connection_manager_find_by_fd(clients', fd) = before
                  /\ clients' = clients
                  /\ Len(record.content) > 0
                     => /\ OneReplyToSource
                        /\ writes'[1].data =
                               build_success_msg("Login successful")]_vars

\* C12 witness: alice's handle has sent LOGIN for alice again, this time
\* with a password that is not hers, and was told the login succeeded
C12_Witness ==
    /\ handled # NULL
    /\ handled.buffer = "LOGIN|alice|server|t|bad\n"
    /\ Source.status = CLIENT_STATUS_AUTHENTICATED
    /\ Source.username = "alice"
    /\ Len(writes) = 1
    /\ IsReply(writes[1].data, RESPONSE_SUCCESS)

(* C13: a LOGIN on a handle already Authenticated as user U that names a   *)
(* different user V is rejected with code 1001, and the handle stays bound *)
(* to U.  The code answers OK "Login successful": the early return of      *)
(* session_manager_authenticate does not compare the names.                *)
C13_LoginAsOtherUserRejected ==
    [][Handles({MSG_TYPE_LOGIN})
         => LET fd == handled'.fd
                record == parse_message(handled'.buffer)
                before == connection_manager_find_by_fd(clients, fd)
            IN (/\ before.status = CLIENT_STATUS_AUTHENTICATED
                /\ before.username # record.sender)
               => /\ OneReplyToSource
                  /\ IsReply(writes'[1].data, ERROR_AUTH_FAILED)
                  /\ connection_manager_find_by_fd(clients', fd) = before]_vars

(* C14: after logout(handle) the handle is Connected with no bound         *)
(* identity whatever its prior state: an Authenticated handle becomes      *)
(* Connected (is_authenticated false, bound_username absent, and it can    *)
(* then authenticate as a different user), a Connected handle is left      *)
(* exactly as it was, and no other registry entry is touched.              *)
C14_LogoutUnbinds ==
    [][Handles({MSG_TYPE_LOGOUT})
         => LET fd == handled'.fd
                i == fd_index_from(clients, fd, 1)
            IN /\ Len(clients') = Len(clients)
               /\ \A j \in 1..Len(clients) : j # i => clients'[j] = clients[j]
               /\ clients'[i] = [clients[i] EXCEPT
                                    !.status = CLIENT_STATUS_CONNECTED,
                                    !.username = "",
                                    !.user_id = -1]
               /\ clients[i].status = CLIENT_STATUS_CONNECTED
                  => clients'[i] = clients[i]
               /\ ~session_manager_is_authenticated(clients', fd)
               /\ session_manager_get_username(clients', fd) = NULL
               /\ \A k \in 1..Len(users) :
                     LET again == session_manager_authenticate(clients', users,
                                      fd, users[k].username, users[k].password)
                     IN /\ again.ret = 1
                        /\ session_manager_get_username(again.cl, fd)
                               = <<users[k].username>>]_vars

\* C14 witness: a LOGOUT has just been handled on a handle that is now
\* Connected with no identity, next to a handle that is still Authenticated
C14_Witness ==
    /\ handled # NULL
    /\ Record # NULL
    /\ Record.type = MSG_TYPE_LOGOUT
    /\ Source.status = CLIENT_STATUS_CONNECTED
    /\ ~HasIdentity(Source)
    /\ \E i \in 1..Len(clients) :
          /\ clients[i].sockfd # handled.fd
          /\ clients[i].status = CLIENT_STATUS_AUTHENTICATED

-----------------------------------------------------------------------------
(* Replies of the command handler. *)

\* the step left the registry and the event loop's table as they were
NothingChanged ==
    /\ clients' = clients
    /\ clients_count' = clients_count
    /\ next_client_id' = next_client_id
    /\ client_fds' = client_fds
    /\ client_count' = client_count

\* the step wrote one frame, to the source handle, and it is an ERROR reply
RejectedWithError ==
    /\ OneReplyToSource
    /\ HasPrefix(writes'[1].data, MSG_TYPE_ERROR \o FIELD_DELIMITER)

(* C15: the command handler requires authentication for LOGOUT: a LOGOUT   *)
(* record arriving on a handle that is not Authenticated is rejected and   *)
(* is not acknowledged with an OK reply.  handle_logout has no such check  *)
(* and always replies OK "Logout successful".                              *)
C15_LogoutRequiresAuthentication ==
    [][Handles({MSG_TYPE_LOGOUT})
         => (~session_manager_is_authenticated(clients, handled'.fd)
             => RejectedWithError)]_vars

(* C16: the command handler requires authentication for STATUS: a STATUS   *)
(* record arriving on a handle that is not Authenticated is rejected and   *)
(* receives no OK reply disclosing the connected-client, online-user and   *)
(* registered-user counts.  handle_status_request has no such check.       *)
C16_StatusRequiresAuthentication ==
    [][Handles({MSG_TYPE_STATUS})
         => (~session_manager_is_authenticated(clients, handled'.fd)
             => RejectedWithError)]_vars

(* C17: a GROUP or HISTORY record from an authenticated handle is answered *)
(* with ERROR 5000 (not implemented), writes nothing to any other socket,  *)
(* mutates no registry or session state, and the caller stays              *)
(* Authenticated and able to send further records.                         *)
C17_NotImplementedLeavesCallerUsable ==
    [][Handles({MSG_TYPE_GROUP, MSG_TYPE_HISTORY})
         => (session_manager_is_authenticated(clients, handled'.fd)
             => /\ OneReplyToSource
                /\ IsReply(writes'[1].data, ERROR_SERVER_ERROR)
                /\ NothingChanged
                /\ session_manager_is_authenticated(clients', handled'.fd)
                /\ handled'.fd \in {client_fds'[i] : i \in 1..MAX_CLIENTS})]_vars

\* C17 witness: a GROUP record from a logged-in handle has just been
\* answered 5000 while another client is connected
C17_Witness ==
    /\ handled # NULL
    /\ Record # NULL
    /\ Record.type = MSG_TYPE_GROUP
    /\ Source.status = CLIENT_STATUS_AUTHENTICATED
    /\ clients_count >= 2
    /\ Len(writes) = 1
    /\ writes[1].fd = handled.fd
    /\ IsReply(writes[1].data, ERROR_SERVER_ERROR)

(* C18: a GROUP record arriving on a handle Authenticated as user U whose  *)
(* sender field differs from U is answered with ERROR 1001 "Sender         *)
(* mismatch".  handle_group_message never compares the sender and answers  *)
(* ERROR 5000.                                                             *)
C18_GroupSenderMismatchRejected ==
    [][Handles({MSG_TYPE_GROUP})
         => LET record == parse_message(handled'.buffer)
                source == connection_manager_find_by_fd(clients, handled'.fd)
            IN (/\ source.status = CLIENT_STATUS_AUTHENTICATED
                /\ record.sender # source.username)
               => /\ OneReplyToSource
                  /\ writes'[1].data =
                         build_error_msg(ERROR_AUTH_FAILED, "Sender mismatch")]_vars

\* the reply frames (OK or ERROR) among the writes of the step to a handle
RepliesTo(fd) ==
    SelectSeq(writes', LAMBDA w : w.fd = fd /\ IsAnyReply(w.data))

(* C19: for every record that parses successfully and whose type is        *)
(* neither OK nor ERROR (including a MSG whose receiver is "*" or starts   *)
(* with "group:"), handling it writes exactly one reply frame (OK or       *)
(* ERROR) to the source handle; a received OK or ERROR record produces no  *)
(* reply and no state change.  handle_send_message returns without a reply *)
(* for a MSG whose receiver is "*" or starts with "group:".                *)
C19_AlwaysOneReply ==
    [][/\ Handles({MSG_TYPE_LOGIN, MSG_TYPE_LOGOUT, MSG_TYPE_MSG,
                   MSG_TYPE_BROADCAST, MSG_TYPE_GROUP, MSG_TYPE_HISTORY,
                   MSG_TYPE_STATUS})
          => Len(RepliesTo(handled'.fd)) = 1
       /\ Handles({MSG_TYPE_OK, MSG_TYPE_ERROR})
          => (writes' = <<>> /\ NothingChanged)]_vars

(* C20: when the bytes read from a handle fail to parse (invalid framing   *)
(* or unknown type), exactly one ERROR reply with code 5000 is written to  *)
(* that handle, nothing is written to any other socket, and no registry or *)
(* session state changes.                                                  *)
C20_ParseFailureReply ==
    [][(/\ handled = NULL
        /\ handled' # NULL
        /\ parse_message(handled'.buffer) = NULL)
         => /\ OneReplyToSource
            /\ IsReply(writes'[1].data, ERROR_SERVER_ERROR)
            /\ NothingChanged]_vars

\* C20 witness: bytes that are no frame at all have just been answered
\* 5000 on a logged-in handle, which is still logged in
C20_Witness ==
    /\ handled # NULL
    /\ handled.buffer = "hello\n"
    /\ Record = NULL
    /\ Source.status = CLIENT_STATUS_AUTHENTICATED
    /\ Len(writes) = 1
    /\ writes[1].fd = handled.fd
    /\ IsReply(writes[1].data, ERROR_SERVER_ERROR)

-----------------------------------------------------------------------------
(* Registry bookkeeping and the life of a connection. *)

\* the handles find_by_fd finds in the list cl
Registered(cl) ==
    {h \in ApiFds \cup OpenFds \cup {cl[i].sockfd : i \in 1..Len(cl)} :
        connection_manager_find_by_fd(cl, h) # NULL}

Closes(fd) ==
    /\ handled = NULL
    /\ handled' = NULL
    /\ fd \in OpenFds
    /\ fd \notin OpenFds'

(* C22: when a read on a client socket returns zero bytes or an error      *)
(* other than would-block, the socket is closed and its entry is removed   *)
(* from both the event loop's table and the registry in the same tick;     *)
(* afterwards find_by_handle(handle) finds nothing and the username that   *)
(* was bound to it is no longer reported online through that connection.   *)
(* The table and the registry hold the same handles in every state.        *)
C22_CloseRemovesFromBothTables ==
    /\ [](Registered(clients) = OpenFds /\ client_count = clients_count)
    /\ [][\A fd \in OpenFds :
            Closes(fd)
            => LET closed == connection_manager_find_by_fd(clients, fd)
               IN /\ connection_manager_find_by_fd(clients', fd) = NULL
                  /\ \A i \in 1..Len(clients') : clients'[i].sockfd # fd
                  /\ client_count' = client_count - 1
                  /\ clients_count' = clients_count - 1
                  /\ OpenFds' = OpenFds \ {fd}
                  /\ (/\ closed.status = CLIENT_STATUS_AUTHENTICATED
                      /\ \A i \in 1..Len(clients) :
                            (clients[i].username = closed.username)
                            => clients[i].sockfd = fd)
                     => ~session_manager_is_user_online(clients',
                                                        closed.username)]_vars

\* C22 witness: of the two connections accepted, the first has been closed
\* and the second is still logged in
C22_Witness ==
    /\ handled = NULL
    /\ next_client_id = 3
    /\ OpenFds = {5}
    /\ connection_manager_find_by_fd(clients, 4) = NULL
    /\ connection_manager_find_by_fd(clients, 5) # NULL
    /\ connection_manager_find_by_fd(clients, 5).status
           = CLIENT_STATUS_AUTHENTICATED
    /\ ~session_manager_is_user_online(clients, "alice")

\* the descriptors accept() can hand out in the model
ClientFds == (SERVER_FD + 1)..(SERVER_FD + MAX_CLIENTS)

\* a send() or write() to fd has just failed
FailedWriteTo(fd) ==
    \E i \in 1..Len(writes) : writes[i].fd = fd /\ ~writes[i].ok

(* C23: if writing a reply or a routed frame to a client's socket fails,   *)
(* that connection is scheduled for removal: it is closed and removed from *)
(* the registry no later than the next event-loop tick.  Checked in the    *)
(* weaker form that the connection is removed at all unless the server is  *)
(* shut down first; send_to_socket and client_handler_send only log the    *)
(* failure, and the connection stays until its peer closes it.             *)
C23_FailedWriteRemovesConnection ==
    \A fd \in ClientFds :
        FailedWriteTo(fd)
        ~> \/ /\ fd \notin OpenFds
              /\ connection_manager_find_by_fd(clients, fd) = NULL
           \/ ~server_running

(* C24: after a shutdown signal (SIGINT or SIGTERM) the event loop         *)
(* eventually exits without needing any further client activity, and when  *)
(* shutdown has completed every client socket has been closed and the      *)
(* registry is empty (count() = 0).  A signal that interrupts select()     *)
(* sends the loop into accept() on the blocking listening socket, where it *)
(* waits for a client to connect.                                          *)
C24_ShutdownCompletes ==
    /\ (~server_running) ~> (loop_pc = "stopped")
    /\ [](loop_pc = "stopped"
             => /\ OpenFds = {}
                /\ client_count = 0
                /\ clients = <<>>
                /\ clients_count = 0)

(* C25: the registry never holds more than max_clients entries (100 in    *)
(* the source, MAX_CLIENTS here): a connection accepted while the table is *)
(* full is closed immediately, gets no registry entry and no reply, and    *)
(* existing entries are unaffected.                                        *)
C25_RegistryNeverOverfull ==
    /\ [](/\ clients_count <= MAX_CLIENTS
          /\ Len(clients) <= MAX_CLIENTS
          /\ client_count <= MAX_CLIENTS)
    /\ [][(/\ client_count >= MAX_CLIENTS
           /\ handled = NULL
           /\ handled' = NULL)
            => /\ Registered(clients') \subseteq Registered(clients)
               /\ \A i \in 1..Len(clients') :
                     clients'[i] = connection_manager_find_by_fd(
                                       clients, clients'[i].sockfd)
               /\ next_client_id' = next_client_id
               /\ writes' = <<>>]_vars

\* C25 witness: the table is full and one more connection can arrive
C25_Witness ==
    /\ client_count = MAX_CLIENTS
    /\ clients_count = MAX_CLIENTS
    /\ Cardinality(OpenFds) = MAX_CLIENTS
    /\ next_client_id <= MaxClientId
    /\ handled = NULL
    /\ \E i \in 1..Len(clients) : clients[i].status = CLIENT_STATUS_AUTHENTICATED

\* the records of a chunk of the byte stream, each with its newline
RECURSIVE LinesFrom(_, _, _)
LinesFrom(buffer, start, i) ==
    IF i > Len(buffer)
    THEN IF start > Len(buffer) THEN <<>>
         ELSE <<SubSeq(buffer, start, Len(buffer))>>
    ELSE IF At(buffer, i) = NEWLINE
    THEN <<SubSeq(buffer, start, i)>> \o LinesFrom(buffer, i + 1, i + 1)
    ELSE LinesFrom(buffer, start, i + 1)

\* the records handled one after the other, each to completion, with every
\* write succeeding
RECURSIVE HandledInOrder(_, _, _, _, _, _)
HandledInOrder(cl, count, us, client_fd, lines, i) ==
    IF i > Len(lines) THEN [cl |-> cl, w |-> <<>>]
    ELSE LET first == client_handler_handle(cl, count, us, client_fd,
                                            lines[i], {})
             rest == HandledInOrder(first.cl, count, us, client_fd, lines, i + 1)
         IN [cl |-> rest.cl, w |-> first.w \o rest.w]

(* C26: for any single sending client, records are processed to completion *)
(* in send order: if client S sends record A and then record B, every      *)
(* socket write caused by A (deliveries to recipients and the reply to S)  *)
(* happens before any write caused by B, so a recipient sees S's messages  *)
(* in the order S sent them.  Stated on one read(): what the server writes *)
(* and binds is what handling the records of the chunk one after the other *)
(* writes and binds.  client_handler_handle parses the whole chunk as one  *)
(* record, so B ends up inside the content of A.                           *)
C26_RecordsProcessedInSendOrder ==
    [][(/\ handled = NULL
        /\ handled' # NULL
        /\ \A i \in 1..Len(writes') : writes'[i].ok)
         => LET inOrder == HandledInOrder(clients, clients_count, users,
                                          handled'.fd,
                                          LinesFrom(handled'.buffer, 1, 1), 1)
            IN /\ writes' = inOrder.w
               /\ clients' = inOrder.cl]_vars

-----------------------------------------------------------------------------
(* Framing and the codec. *)

\* the positions of the newline bytes of data
Newlines(data) == {i \in 1..Len(data) : At(data, i) = NEWLINE}

\* data is one logical line: its only newline is its last byte
OneLogicalLine(data) ==
    /\ Len(data) > 0
    /\ At(data, Len(data)) = NEWLINE
    /\ Cardinality(Newlines(data)) = 1

(* C27: every frame the server writes to a client socket (routed records   *)
(* and OK/ERROR replies, the STATUS reply included) is one logical line:    *)
(* it contains exactly one unescaped newline, and that newline is its last *)
(* byte.  build_response_msg copies the message as it is, and the STATUS   *)
(* text has five newlines of its own.                                      *)
C27_EveryWriteIsOneLine ==
    \A i \in 1..Len(writes) : OneLogicalLine(writes[i].data)

(* C28: for every string s over an alphabet that includes '|', backslash  *)
(* and newline, unescape(escape(s)) = s.                                   *)
C28_UnescapeInvertsEscape ==
    codec_op = "unescape" => codec_out = codec_in.val

\* C28 witness: a string with a backslash before the letter n, a separator
\* and a newline has gone through escape_field and unescape_field
C28_Witness ==
    /\ codec_op = "unescape"
    /\ codec_in.val = "\\n|\n"
    /\ codec_out = "\\n|\n"

(* C29: for every record r with a known type and fields within the length *)
(* caps (fields may contain '|', backslash and newline),                   *)
(* parse(serialize(r)) succeeds and equals r on type, sender, receiver,    *)
(* content and (when non-empty) timestamp, differing at most in message-id *)
(* and an auto-filled timestamp.                                           *)
C29_ParseInvertsSerialize ==
    codec_op = "reparse"
    => /\ codec_out # NULL
       /\ codec_out.type = codec_in.val.type
       /\ codec_out.sender = codec_in.val.sender
       /\ codec_out.receiver = codec_in.val.receiver
       /\ codec_out.content = codec_in.val.content
       /\ codec_out.timestamp = IF codec_in.val.timestamp = ""
                                THEN get_current_timestamp
                                ELSE codec_in.val.timestamp

\* C29 witness: a record with special characters in every field has been
\* serialized and parsed back
C29_Witness ==
    /\ codec_op = "reparse"
    /\ codec_in.val.sender = "a|b"
    /\ codec_in.val.receiver = "\\\n"
    /\ codec_in.val.timestamp = "1|2"
    /\ codec_in.val.content = "\\|"
    /\ codec_out # NULL
    /\ codec_out.content = "\\|"

C32_ValidateRejectsShortAndLong ==
    (/\ codec_op = "validate"
     /\ codec_in.tag = "bytes"
     /\ (Len(codec_in.val) <= 5 \/ Len(codec_in.val) > 1024))
    => codec_out = FALSE

\* the record ends, before its newline if it has one, in an odd number of
\* backslashes
OddTrailingBackslashes(raw) ==
    LET body == IF Len(raw) > 0 /\ At(raw, Len(raw)) = NEWLINE
                THEN SubSeq(raw, 1, Len(raw) - 1) ELSE raw
    IN backslashes_before(body, Len(body)) % 2 = 1

(* C33: a frame whose last field ends in an odd number of consecutive      *)
(* backslashes is rejected as a framing error by validate/parse, whether   *)
(* the trailing backslash is the final byte of the input or is followed    *)
(* only by the frame's terminating newline.  validate_message looks at the *)
(* final byte only, which is the newline of a terminated frame.            *)
C33_OddTrailingBackslashRejected ==
    (/\ codec_in # NULL
     /\ codec_in.tag = "bytes"
     /\ OddTrailingBackslashes(codec_in.val))
    => /\ codec_op = "validate" => codec_out = FALSE
       /\ codec_op = "parse_bytes" => codec_out = NULL

-----------------------------------------------------------------------------
(* Credential store, router results and registry calls. *)

(* C34: credential store add(name, credential) fails and leaves the store  *)
(* unchanged when the name already exists or when the name does not match  *)
(* the username rule ([A-Za-z0-9_]+, at most 31 characters); a failed add  *)
(* issues no user identity.  Hence every add that changes the store puts   *)
(* one new user with a new, valid name at its head and issues one          *)
(* identity.  user_store_add never applies the username rule.              *)
C34_AddRejectsInvalidNames ==
    [][(api_op' = "add_user" /\ users' # users)
         => /\ Len(users') = Len(users) + 1
            /\ SubSeq(users', 2, Len(users')) = users
            /\ user_store_find_by_username(users, users'[1].username) = NULL
            /\ is_valid_username(users'[1].username)
            /\ users'[1].username \in ApiNewUsernames
            /\ user_id_counter' = user_id_counter + 1]_vars

(* C35: routing a BROADCAST returns 0 exactly when at least one recipient  *)
(* write succeeded: failed writes to some recipients do not change a       *)
(* successful result, and a broadcast with no successful recipient (for    *)
(* example when the sender is the only Authenticated client) is reported   *)
(* to the sender as ERROR 5000 rather than OK.  The return value is seen   *)
(* in the reply handle_broadcast writes to the source handle.              *)
C35_BroadcastOkIffSomeRecipient ==
    FromVerifiedSender({MSG_TYPE_BROADCAST})
    => LET recipients == WritesElsewhere(handled.fd)
           reply == WritesTo(handled.fd)
           delivered == \E i \in 1..Len(recipients) : recipients[i].ok
       IN /\ Len(reply) = 1
          /\ delivered => IsReply(reply[1].data, RESPONSE_SUCCESS)
          /\ ~delivered => IsReply(reply[1].data, ERROR_SERVER_ERROR)

\* C35 witness: one recipient write failed, another succeeded, and the
\* sender was told OK
C35_Witness ==
    /\ FromVerifiedSender({MSG_TYPE_BROADCAST})
    /\ \E i, j \in 1..Len(writes) :
          /\ writes[i].fd # handled.fd /\ ~writes[i].ok
          /\ writes[j].fd # handled.fd /\ writes[j].ok
    /\ IsReply(WritesTo(handled.fd)[1].data, RESPONSE_SUCCESS)

\* the codes of the protocol's response table
ResponseCodes ==
    {RESPONSE_SUCCESS, ERROR_AUTH_FAILED, ERROR_USER_NOT_FOUND,
     ERROR_USER_OFFLINE, ERROR_GROUP_FULL, ERROR_SERVER_ERROR}

\* how a reply frame of the type carrying the code begins
ReplyPrefix(type, code) ==
    type \o "|server|client|" \o get_current_timestamp \o "|"
    \o ToString(code) \o "|"

(* C36: every reply frame the server writes has type OK if and only if its *)
(* code is 0, and its code is always one of 0, 1001, 1002, 1003, 1004,     *)
(* 5000, including the reply to a MSG whose delivery write to the          *)
(* receiver's socket failed.                                               *)
C36_ReplyCodesFromTable ==
    \A i \in 1..Len(writes) :
       LET data == writes[i].data
       IN /\ HasPrefix(data, MSG_TYPE_OK \o FIELD_DELIMITER)
             => HasPrefix(data, ReplyPrefix(MSG_TYPE_OK, RESPONSE_SUCCESS))
          /\ HasPrefix(data, MSG_TYPE_ERROR \o FIELD_DELIMITER)
             => \E code \in ResponseCodes \ {RESPONSE_SUCCESS} :
                   HasPrefix(data, ReplyPrefix(MSG_TYPE_ERROR, code))

\* the step leaves the registry list, its count and the id counter alone
RegistryUnchanged ==
    /\ clients' = clients
    /\ clients_count' = clients_count
    /\ next_client_id' = next_client_id

\* the list cl without its i-th entry
WithoutEntry(cl, i) == SubSeq(cl, 1, i - 1) \o SubSeq(cl, i + 1, Len(cl))

\* what a step that calls add or remove does to the registry
C37_StepsIdempotent ==
    [][/\ api_op' = "add"
          => \/ RegistryUnchanged
             \/ /\ clients' # <<>>
                /\ Tail(clients') = clients
                /\ Head(clients').sockfd \in ApiFds \ Registered(clients)
                /\ clients_count' = clients_count + 1
       /\ (api_op' = "add" /\ ApiFds \subseteq Registered(clients))
          => RegistryUnchanged
       /\ api_op' = "remove"
          => \/ RegistryUnchanged
             \/ /\ \E i \in 1..Len(clients) :
                      /\ clients[i].sockfd \in ApiFds
                      /\ clients' = WithoutEntry(clients, i)
                /\ clients_count' = clients_count - 1
                /\ next_client_id' = next_client_id
       /\ (api_op' = "remove" /\ ApiFds \cap Registered(clients) = {})
          => RegistryUnchanged]_vars

(* C37: registry add and remove are idempotent: add(handle, ...) on a      *)
(* handle already present changes nothing (count, the existing entry's id, *)
(* status and bound identity are kept), and remove(handle) on an absent    *)
(* handle changes nothing; remove of a present handle leaves every other   *)
(* entry unchanged.                                                        *)
C37_AddRemoveIdempotent ==
    /\ [](\A fd \in ApiFds :
            IF fd \in Registered(clients)
            THEN /\ connection_manager_add_from_fd(Registry, fd) = Registry
                 /\ connection_manager_remove(Registry, fd)
                    = [list |-> SelectSeq(clients, LAMBDA c : c.sockfd # fd),
                       count |-> clients_count - 1,
                       next_id |-> next_client_id]
            ELSE connection_manager_remove(Registry, fd) = Registry)
    /\ C37_StepsIdempotent

\* C37 witness: add was called on a handle whose entry is bound to a user
\* (the head of the list is the entry added last, and it is Authenticated),
\* next to a second entry
C37_Witness ==
    /\ api_op = "add"
    /\ Len(clients) = 2
    /\ clients[1].status = CLIENT_STATUS_AUTHENTICATED
    /\ clients[1].username = "bob"
    /\ clients[2].status = CLIENT_STATUS_CONNECTED

\* the step accepts a connection on descriptor fd and gives it a slot
Accepts(fd) ==
    /\ handled = NULL
    /\ handled' = NULL
    /\ fd \notin OpenFds
    /\ \E slot \in 1..MAX_CLIENTS :
          client_fds' = [client_fds EXCEPT ![slot] = fd]

(* C38: a newly accepted connection always starts Connected with no bound  *)
(* identity, even when its handle (descriptor number) equals that of an    *)
(* earlier connection that was Authenticated: on every path that closes a  *)
(* client socket the registry entry for that handle is removed before the  *)
(* handle can be accepted again, so add's skip-if-present rule never lets  *)
(* a new connection inherit an old session.                                *)
C38_AcceptedStartsConnected ==
    /\ [](\A i \in 1..Len(clients) : clients[i].sockfd \in OpenFds)
    /\ [][\A fd \in (SERVER_FD + 1)..(SERVER_FD + MAX_CLIENTS + 1) :
            Accepts(fd)
            => LET entry == connection_manager_find_by_fd(clients', fd)
               IN /\ connection_manager_find_by_fd(clients, fd) = NULL
                  /\ entry # NULL
                  /\ entry.status = CLIENT_STATUS_CONNECTED
                  /\ entry.user_id = -1
                  /\ entry.username = ""
                  /\ entry.client_id = next_client_id]_vars

\* C38 witness: descriptor 4 is in use for the second time (its entry has
\* a later id than the entry of descriptor 5) and is Connected and unbound,
\* while bob is logged in on descriptor 5
C38_Witness ==
    /\ handled = NULL
    /\ Len(clients) = 2
    /\ clients[1].sockfd = SERVER_FD + 1
    /\ clients[1].status = CLIENT_STATUS_CONNECTED
    /\ clients[1].username = ""
    /\ clients[2].sockfd = SERVER_FD + 2
    /\ clients[2].status = CLIENT_STATUS_AUTHENTICATED
    /\ clients[1].client_id > clients[2].client_id

-----------------------------------------------------------------------------
(* The client program's view of its session. *)

\* the server's entry for the client's connection
PeerSession == connection_manager_find_by_fd(clients, PeerFd)

(* C39: client program: after client_logout returns 0 the client's local   *)
(* state is CONNECTED and stays CONNECTED until a later successful login;  *)
(* in particular the reader thread's handling of the server's OK           *)
(* acknowledgement of that logout does not put the local state back to     *)
(* AUTHENTICATED while the server session is Connected.                    *)
C39_LogoutStaysConnected ==
    (/\ app_pc = "idle"
     /\ app_ret = [op |-> "logout", ret |-> 0]
     /\ PeerSession # NULL
     /\ PeerSession.status = CLIENT_STATUS_CONNECTED)
    => app_state # "AUTHENTICATED"

(* C40: client program: after the reader thread detects loss of the        *)
(* connection and sets the state to DISCONNECTED, a later client_connect   *)
(* followed by client_start succeeds and starts a new reader thread, so    *)
(* replies on the new connection are eventually read (the running flag     *)
(* does not stay stuck at true from the dead thread).  Stated for the step *)
(* in which client_start returns: with the state CONNECTED and the reader  *)
(* thread gone, it returns 0 and a reader thread runs.                     *)
C40_RestartAfterLoss ==
    [][(/\ app_pc = "start"
        /\ app_pc' = "idle"
        /\ app_state = "CONNECTED"
        /\ recv_pc = "exited")
       => (app_ret'.ret = 0 /\ recv_pc' = "loop")]_vars


=============================================================================
